---- MODULE Spec2Model ----
(***************************************************************************)
(* Model of the knowledge-base core of RagBackend:                         *)
(*   knowledge_base/utils.py         name sanitizer and validator          *)
(*   knowledge_base/name_mapping.py  NameMapping (JSON-file backed table)  *)
(*   knowledge_base/vectorstore.py   VectorStore over a Chroma client      *)
(*   knowledge_base/splitter.py      TextSplitter                          *)
(* Strings are sequences of characters; a character is a one-element       *)
(* token ("a", "_", ...) or the name of a non-ASCII code point ("U+4E2D"). *)
(***************************************************************************)
EXTENDS Integers, Sequences, FiniteSets, TLC

VARIABLES
    index,      \* Chroma client: storage name -> sequence of stored documents
    mapping,    \* NameMapping.mapping: insertion-ordered dict, a sequence of [k, v]
    file,       \* content of name_mapping.json: NoFile or a sequence of tokens
    last,       \* the last completed call: its arguments, outcome and pre-state
    pc,         \* per worker thread: position inside add_mapping / remove_mapping
    loc         \* per worker thread: locals of the running call

vars == <<index, mapping, file, last, pc, loc>>

----------------------------------------------------------------------------
(* Characters *)

AsciiLower ==
    {"a","b","c","d","e","f","g","h","i","j","k","l","m",
     "n","o","p","q","r","s","t","u","v","w","x","y","z"}
AsciiUpper == {"A","B","K"}
AsciiDigits == {"0","1","2","3","4","5","6","7","8","9"}
AsciiAlnum == AsciiLower \cup AsciiUpper \cup AsciiDigits
AsciiOther == {"_", "-", ".", " ", ",", "/"}

\* Non-ASCII code points of the model: a CJK ideograph (no ASCII decomposition),
\* e-acute (NFKD: "e" + combining acute), fullwidth "A" (NFKD: "A"),
\* ideographic space (whitespace; NFKD: " ").
NonAsciiChars == {"U+4E2D", "U+00E9", "U+FF21", "U+3000"}

\* str.strip() without arguments removes Unicode whitespace; "NL" is the newline.
Whitespace == {" ", "NL", "U+3000"}

\* str.isalnum() is Unicode-aware.
PyIsAlnum(c) == c \in AsciiAlnum \cup {"U+4E2D", "U+00E9", "U+FF21"}

\* ord(c) > 127
NonAscii(c) == c \in NonAsciiChars

\* unicodedata.normalize('NFKD', c).encode('ascii', 'ignore') for one character
NfkdAscii(c) ==
    CASE c = "U+4E2D" -> <<>>
      [] c = "U+00E9" -> <<"e">>
      [] c = "U+FF21" -> <<"A">>
      [] c = "U+3000" -> <<" ">>
      [] OTHER -> <<c>>

----------------------------------------------------------------------------
(* String helpers *)

\* Characters outside AsciiAlnum, over the model's whole alphabet
NonAlnumChars == (AsciiOther \cup NonAsciiChars)

RECURSIVE LStrip(_, _)
LStrip(s, drop) ==
    IF s # <<>> /\ Head(s) \in drop THEN LStrip(Tail(s), drop) ELSE s

RECURSIVE RStrip(_, _)
RStrip(s, drop) ==
    IF s # <<>> /\ s[Len(s)] \in drop
    THEN RStrip(SubSeq(s, 1, Len(s) - 1), drop)
    ELSE s

\* str.strip()
Strip(s) == RStrip(LStrip(s, Whitespace), Whitespace)

\* s[:n]
Prefix(s, n) == SubSeq(s, 1, IF n < Len(s) THEN n ELSE Len(s))

\* s[n:] (0-based n)
Suffix(s, n) == IF n >= Len(s) THEN <<>> ELSE SubSeq(s, n + 1, Len(s))

RECURSIVE SplitOn(_, _)
\* s.split(sep) for a one-character separator: the list of fields
SplitOn(s, sep) ==
    IF \A i \in 1..Len(s) : s[i] # sep
    THEN <<s>>
    ELSE LET i == CHOOSE k \in 1..Len(s) :
                      s[k] = sep /\ \A j \in 1..(k - 1) : s[j] # sep
         IN  <<SubSeq(s, 1, i - 1)>> \o SplitOn(Suffix(s, i), sep)

KbPrefix == <<"k", "b", "_">>
KbSuffix == <<"_", "k", "b">>
KbDefault == <<"k","b","_","d","e","f","a","u","l","t">>

----------------------------------------------------------------------------
(* utils.py: sanitize_collection_name, validate_collection_name *)

MinNameLen == 3
MaxNameLen == 63
TruncLen == 54
ShortHashLen == 8
LongHashLen == 12

HexDigits == <<"0","1","2","3","4","5","6","7","8","9","a","b","c","d","e","f">>

\* An order of the model's characters, standing for their code points.
CharOrder ==
    <<"a","b","c","d","e","f","g","h","i","j","k","l","m",
      "n","o","p","q","r","s","t","u","v","w","x","y","z",
      "A","B","K","0","1","2","3","4","5","6","7","8","9",
      "_","-","."," ",",","/","U+4E2D","U+00E9","U+FF21","U+3000">>

CharCode(c) == CHOOSE i \in 1..Len(CharOrder) : CharOrder[i] = c

\* a * b modulo 2^16, for a and b below 2^16, within 32-bit integers
MulMod(a, b) == ((a % 256) * b + (((a \div 256) * b) % 65536) * 256) % 65536

RECURSIVE PowMod(_)
\* 31 to the power k, modulo 2^16
PowMod(k) ==
    IF k = 0 THEN 1
    ELSE IF k % 2 = 0 THEN MulMod(PowMod(k \div 2), PowMod(k \div 2))
    ELSE MulMod(31, PowMod(k - 1))

RECURSIVE DigestSum(_, _, _)
\* The part of the digest of s that its characters lo..hi contribute
DigestSum(s, lo, hi) ==
    IF lo > hi THEN 0
    ELSE IF lo = hi THEN MulMod(CharCode(s[lo]) + 7, PowMod(Len(s) - lo))
    ELSE (DigestSum(s, lo, (lo + hi) \div 2)
          + DigestSum(s, ((lo + hi) \div 2) + 1, hi)) % 65536

\* A 16-bit digest of a string, standing for MD5's 128 bits: h * 31 + code + 7
\* modulo 2^16 folded over the characters from left to right, starting from h.
Digest(s, h) == (MulMod(h, PowMod(Len(s))) + DigestSum(s, 1, Len(s))) % 65536

RECURSIVE HexOf(_, _)
HexOf(h, n) ==
    IF n = 0 THEN <<>>
    ELSE <<HexDigits[(h % 16) + 1]>> \o HexOf((h * 5 + 3) % 65536, n - 1)

\* hashlib.md5(s.encode('utf-8')).hexdigest()[:n]: n lowercase hex digits that
\* depend on the whole of s.
Md5Hex(s, n) == HexOf(Digest(s, 17), n)

AllDigits(s) == \A i \in 1..Len(s) : s[i] \in AsciiDigits

\* re.match(r'^(\d{1,3}\.){3}\d{1,3}$', s)
IsIPv4(s) ==
    LET f == SplitOn(s, ".")
    IN  /\ Len(f) = 4
        /\ \A i \in 1..4 : Len(f[i]) \in 1..3 /\ AllDigits(f[i])

RECURSIVE NfkdAsciiSeq(_)
\* unicodedata.normalize('NFKD', s).encode('ascii', 'ignore').decode('ascii')
NfkdAsciiSeq(s) ==
    IF s = <<>> THEN <<>> ELSE NfkdAscii(Head(s)) \o NfkdAsciiSeq(Tail(s))

\* re.sub(r'[^a-zA-Z0-9_-]', '_', s)
ReplaceIllegal(s) ==
    [i \in 1..Len(s) |-> IF s[i] \in AsciiAlnum \cup {"_", "-"} THEN s[i] ELSE "_"]

\* s[i] is a "." that has a "." next to it
InDotRun(s, i) ==
    /\ s[i] = "."
    /\ (i > 1 /\ s[i - 1] = ".") \/ (i < Len(s) /\ s[i + 1] = ".")

\* re.sub(r'\.{2,}', '_', s): the first "." of a run becomes "_", the others go
CollapseDots(s) ==
    SelectSeq([i \in 1..Len(s) |->
                  IF ~InDotRun(s, i) THEN s[i]
                  ELSE IF i = 1 \/ s[i - 1] # "." THEN "_" ELSE ""],
              LAMBDA c : c # "")

\* re.sub(r'^[^a-zA-Z0-9]+|[^a-zA-Z0-9]+$', '', s)
StripNonAlnum(s) == RStrip(LStrip(s, NonAlnumChars), NonAlnumChars)

\* A clamp that pads a short name and leaves a long one as it is
ClampLengthShortOnly(sanitized, original_name) ==
    IF Len(sanitized) < MinNameLen
    THEN Prefix(sanitized \o <<"_">> \o Md5Hex(original_name, ShortHashLen), MaxNameLen)
    ELSE sanitized

\* lines 79-87: clamp the length into 3..63
ClampLength(sanitized, original_name) ==
    IF Len(sanitized) < MinNameLen
    THEN Prefix(sanitized \o <<"_">> \o Md5Hex(original_name, ShortHashLen), MaxNameLen)
    ELSE IF Len(sanitized) > MaxNameLen
         THEN Prefix(sanitized, TruncLen) \o <<"_">> \o Md5Hex(original_name, ShortHashLen)
         ELSE sanitized

\* lines 48-56: the transliterated name, with its hash
Transliterated(ascii_name, original_name) ==
    IF ascii_name = <<>> \/ Len(Strip(ascii_name)) < MinNameLen
    THEN KbPrefix \o Md5Hex(original_name, LongHashLen)
    ELSE ascii_name \o <<"_">> \o Md5Hex(original_name, ShortHashLen)

\* lines 40-59: the ASCII working string
AsciiName(original_name) ==
    IF \E i \in 1..Len(original_name) : NonAscii(original_name[i])
    THEN Transliterated(NfkdAsciiSeq(original_name), original_name)
    ELSE original_name

\* lines 71-73: alnum at the start
EnsureHead(s) ==
    IF s = <<>> \/ ~PyIsAlnum(s[1])
    THEN (IF s # <<>> THEN KbPrefix \o s ELSE KbDefault)
    ELSE s

\* lines 75-77: alnum at the end
EnsureTail(s) ==
    IF s = <<>> \/ ~PyIsAlnum(s[Len(s)])
    THEN (IF s # <<>> THEN s \o KbSuffix ELSE KbDefault)
    ELSE s

\* lines 71-77: alnum at both ends
EnsureBounded(s) == EnsureTail(EnsureHead(s))

\* lines 32-36: an IPv4-shaped name gets the prefix
PrefixIPv4(stripped) == IF IsIPv4(stripped) THEN KbPrefix \o stripped ELSE stripped

\* lines 38-87: the storage name of the working string
Sanitized(original_name) ==
    ClampLength(
        EnsureBounded(StripNonAlnum(CollapseDots(ReplaceIllegal(AsciiName(original_name))))),
        original_name)

\* lines 89-92: the result pair
SanitizeResult(sanitized, original_name) ==
    [ok |-> TRUE, name |-> sanitized, converted |-> sanitized # original_name]

\* lines 30-92, for the working string
SanitizeFrom(original_name) == SanitizeResult(Sanitized(original_name), original_name)

\* sanitize_collection_name(name): [ok, name, converted]; ok = FALSE is ValueError
sanitize_collection_name(name) ==
    IF name = <<>>
    THEN [ok |-> FALSE, name |-> <<>>, converted |-> FALSE]
    ELSE SanitizeFrom(PrefixIPv4(Strip(name)))

\* '..' in name
HasDotDot(s) == \E i \in 1..(Len(s) - 1) : s[i] = "." /\ s[i + 1] = "."

\* validate_collection_name lines 110-133, for the stripped name
ValidStripped(n) ==
    /\ Len(n) >= MinNameLen
    /\ Len(n) <= MaxNameLen
    /\ PyIsAlnum(n[1]) /\ PyIsAlnum(n[Len(n)])
    /\ \A i \in 1..Len(n) : n[i] \in AsciiAlnum \cup {"_", "-"}
    /\ ~HasDotDot(n)
    /\ ~IsIPv4(n)

\* validate_collection_name(name)[0]
validate_collection_name(name) ==
    IF name = <<>> \/ Strip(name) = <<>> THEN FALSE ELSE ValidStripped(Strip(name))

----------------------------------------------------------------------------
(* name_mapping.py: NameMapping *)

\* Python's None where a string is expected
None == <<"None">>

\* not x, for x a string or None
Falsy(x) == x = None \/ x = <<>>

MapHas(m, k) == \E i \in 1..Len(m) : m[i].k = k

\* dict.get(k)
MapGet(m, k) ==
    IF MapHas(m, k) THEN m[CHOOSE i \in 1..Len(m) : m[i].k = k].v ELSE None

\* self.mapping[k] = v: an existing key keeps its position
MapPut(m, k, v) ==
    IF MapHas(m, k)
    THEN [i \in 1..Len(m) |-> IF m[i].k = k THEN [k |-> k, v |-> v] ELSE m[i]]
    ELSE Append(m, [k |-> k, v |-> v])

\* del self.mapping[k]
MapDel(m, k) == SelectSeq(m, LAMBDA e : e.k # k)

\* Tokens of the JSON file
TokOpen == [t |-> "{", k |-> <<>>, v |-> <<>>]
TokClose == [t |-> "}", k |-> <<>>, v |-> <<>>]
TokEntry(e) == [t |-> "entry", k |-> e.k, v |-> e.v]
TokListOpen == [t |-> "[", k |-> <<>>, v |-> <<>>]
TokListClose == [t |-> "]", k |-> <<>>, v |-> <<>>]

NoFile == [exists |-> FALSE, data |-> <<>>]

\* json.dump(self.mapping, f, ensure_ascii=False, indent=2)
Serialize(m) == <<TokOpen>> \o [i \in 1..Len(m) |-> TokEntry(m[i])] \o <<TokClose>>

RECURSIVE BuildDict(_, _)
\* json.load of an object: a repeated key keeps its first position, last value
BuildDict(toks, acc) ==
    IF toks = <<>> THEN acc
    ELSE BuildDict(Tail(toks), MapPut(acc, Head(toks).k, Head(toks).v))

\* json.load succeeds and yields an object
IsJsonObject(data) ==
    /\ Len(data) >= 2
    /\ data[1] = TokOpen
    /\ data[Len(data)] = TokClose
    /\ \A i \in 2..(Len(data) - 1) : data[i].t = "entry"

\* A loader that takes every entry it finds in the file, well-formed or not
LoadMappingTrusting(f) ==
    IF ~f.exists THEN <<>>
    ELSE BuildDict(SelectSeq(f.data, LAMBDA tok : tok.t = "entry"), <<>>)

\* NameMapping._load_mapping
_load_mapping(f) ==
    IF ~f.exists THEN <<>>
    ELSE IF IsJsonObject(f.data)
         THEN BuildDict(SubSeq(f.data, 2, Len(f.data) - 1), <<>>)
         ELSE <<>>

\* NameMapping.__init__: the table after construction; openFails is open()
\* raising on a file that exists but cannot be read
LoadMapping(f, openFails) ==
    IF f.exists /\ openFails THEN <<>> ELSE _load_mapping(f)

\* Outcomes of the file I/O of one _save_mapping call
IoOk == [kind |-> "ok", cut |-> 0]
IoOpenFails == [kind |-> "open", cut |-> 0]
IoWriteFails(c) == [kind |-> "write", cut |-> c]

\* A save that opens the file for appending
SaveMappingAppending(m, f, io) ==
    [file |-> [exists |-> TRUE, data |-> f.data \o Serialize(m)], saved |-> TRUE]

\* NameMapping._save_mapping: [file, saved]; saved is its return value
_save_mapping(m, f, io) ==
    CASE io.kind = "ok" ->
            [file |-> [exists |-> TRUE, data |-> Serialize(m)], saved |-> TRUE]
      [] io.kind = "open" ->
            [file |-> f, saved |-> FALSE]
      [] OTHER ->
            [file |-> [exists |-> TRUE,
                       data |-> Prefix(Serialize(m),
                                       IF io.cut < Len(Serialize(m))
                                       THEN io.cut ELSE Len(Serialize(m)) - 1)],
             saved |-> FALSE]

\* NameMapping.add_mapping: [mapping, file, raised]
add_mapping(m, f, actual_name, original_name, io) ==
    IF actual_name # original_name
    THEN LET m2 == MapPut(m, actual_name, original_name)
         IN  [mapping |-> m2, file |-> _save_mapping(m2, f, io).file, raised |-> FALSE]
    ELSE [mapping |-> m, file |-> f, raised |-> FALSE]

\* NameMapping.get_original_name
get_original_name(m, actual_name) == MapGet(m, actual_name)

\* NameMapping.get_actual_name
get_actual_name(m, name) ==
    IF \E i \in 1..Len(m) : m[i].v = name
    THEN m[CHOOSE i \in 1..Len(m) :
               m[i].v = name /\ \A j \in 1..(i - 1) : m[j].v # name].k
    ELSE name

\* NameMapping.remove_mapping: [mapping, file, raised]
remove_mapping(m, f, actual_name, io) ==
    IF MapHas(m, actual_name)
    THEN LET m2 == MapDel(m, actual_name)
         IN  [mapping |-> m2, file |-> _save_mapping(m2, f, io).file, raised |-> FALSE]
    ELSE [mapping |-> m, file |-> f, raised |-> FALSE]

----------------------------------------------------------------------------
(* The Chroma client as vectorstore.py uses it *)

\* Chroma's own name rule, as the docstring of sanitize_collection_name gives it
ChromaAccepts(name) ==
    /\ Len(name) >= MinNameLen
    /\ Len(name) <= MaxNameLen
    /\ name[1] \in AsciiAlnum /\ name[Len(name)] \in AsciiAlnum
    /\ \A i \in 1..Len(name) : name[i] \in AsciiAlnum \cup {"_", "-"}
    /\ ~IsIPv4(name)

\* client.get_collection(name) returns (does not raise)
ClientGetOk(idx, name, indexDown) == ~indexDown /\ name \in DOMAIN idx

\* client.create_collection(name) returns (does not raise)
ClientCreateOk(idx, name, indexDown) ==
    ~indexDown /\ name \notin DOMAIN idx /\ ChromaAccepts(name)

\* client.delete_collection(name) returns (does not raise)
ClientDeleteOk(idx, name, indexDown) == ~indexDown /\ name \in DOMAIN idx

ClientCreate(idx, name) == [n \in DOMAIN idx \cup {name} |-> IF n = name THEN <<>> ELSE idx[n]]

ClientDelete(idx, name) == [n \in DOMAIN idx \ {name} |-> idx[n]]

\* ids of the documents of a collection, in order
IdsOf(docs) == [i \in 1..Len(docs) |-> docs[i].id]

SeqToSet(s) == {s[i] : i \in 1..Len(s)}

NoDuplicates(s) == \A i, j \in 1..Len(s) : i # j => s[i] # s[j]

----------------------------------------------------------------------------
(* vectorstore.py: VectorStore *)

\* The outcome of a call that raised: nothing returned
Raised(w, kind) ==
    [index |-> w.index, mapping |-> w.mapping, file |-> w.file,
     ok |-> FALSE, err |-> kind, actual |-> <<>>, converted |-> FALSE,
     flag |-> FALSE, ids |-> <<>>]

\* The outcome of a call that returned: flag is a returned bool, ids a returned list
Returned(idx, m, f, actual, converted, flag, ids) ==
    [index |-> idx, mapping |-> m, file |-> f,
     ok |-> TRUE, err |-> "none", actual |-> actual, converted |-> converted,
     flag |-> flag, ids |-> ids]

\* create_collection lines 61-80: the name to use
ActualName(collection_name, original_name) ==
    LET n == IF ~Falsy(original_name) THEN original_name ELSE collection_name
    IN  IF validate_collection_name(n)
        THEN [ok |-> TRUE, name |-> n, converted |-> FALSE]
        ELSE sanitize_collection_name(n)

\* A mapping step that overwrites the entry of a collection that exists
MapExistingClobbering(w, actual_name, original_name, io) ==
    IF ~Falsy(original_name) /\ actual_name # original_name
    THEN add_mapping(w.mapping, w.file, actual_name, original_name, io)
    ELSE [mapping |-> w.mapping, file |-> w.file, raised |-> FALSE]

\* create_collection lines 89-95: the mapping step when the collection exists
MapExisting(w, actual_name, original_name, io) ==
    IF ~Falsy(original_name) /\ actual_name # original_name
       /\ Falsy(get_original_name(w.mapping, actual_name))
    THEN add_mapping(w.mapping, w.file, actual_name, original_name, io)
    ELSE [mapping |-> w.mapping, file |-> w.file, raised |-> FALSE]

\* create_collection lines 105-107: the mapping step after creating the collection
MapCreated(w, actual_name, original_name, io) ==
    IF ~Falsy(original_name) /\ actual_name # original_name
    THEN add_mapping(w.mapping, w.file, actual_name, original_name, io)
    ELSE [mapping |-> w.mapping, file |-> w.file, raised |-> FALSE]

\* The call returns the collection with the mapping step r done
ReturnedMapped(idx, r, a) ==
    Returned(idx, r.mapping, r.file, a.name, a.converted, TRUE, <<>>)

\* create_collection lines 82-109, for the name a
CreateNamed(w, a, original_name, indexDown, io) ==
    IF ~a.ok THEN Raised(w, "ValueError")
    ELSE IF ClientGetOk(w.index, a.name, indexDown)
    THEN ReturnedMapped(w.index, MapExisting(w, a.name, original_name, io), a)
    ELSE IF ClientCreateOk(w.index, a.name, indexDown)
    THEN ReturnedMapped(ClientCreate(w.index, a.name),
                        MapCreated(w, a.name, original_name, io), a)
    ELSE Raised(w, "ChromaError")

\* VectorStore.create_collection
create_collection(w, collection_name, original_name, indexDown, io) ==
    CreateNamed(w, ActualName(collection_name, original_name), original_name, indexDown, io)

\* The call returns True with the mapping step r done
ReturnedUnmapped(idx, r, actual_name) ==
    Returned(idx, r.mapping, r.file, actual_name, FALSE, TRUE, <<>>)

\* A delete_collection that lets the failure of the index call escape
DeleteNamedRaising(w, actual_name, indexDown, io) ==
    IF ClientDeleteOk(w.index, actual_name, indexDown)
    THEN ReturnedUnmapped(ClientDelete(w.index, actual_name),
                          remove_mapping(w.mapping, w.file, actual_name, io), actual_name)
    ELSE Raised(w, "ChromaError")

\* delete_collection lines 125-134, for the resolved name
DeleteNamed(w, actual_name, indexDown, io) ==
    IF ClientDeleteOk(w.index, actual_name, indexDown)
    THEN ReturnedUnmapped(ClientDelete(w.index, actual_name),
                          remove_mapping(w.mapping, w.file, actual_name, io), actual_name)
    ELSE Returned(w.index, w.mapping, w.file, actual_name, FALSE, FALSE, <<>>)

\* VectorStore.delete_collection: flag is the returned bool
delete_collection(w, collection_name, indexDown, io) ==
    DeleteNamed(w, get_actual_name(w.mapping, collection_name), indexDown, io)

\* An optional argument: given = FALSE is Python's None
Absent == [given |-> FALSE, list |-> <<>>]
Given(list) == [given |-> TRUE, list |-> list]

\* bool(x) of an optional list: None and [] are falsy
Truthy(opt) == opt.given /\ opt.list # <<>>

RECURSIVE Dec(_)
\* str(n) for n >= 0
Dec(n) == IF n < 10 THEN <<HexDigits[n + 1]>> ELSE Dec(n \div 10) \o <<HexDigits[(n % 10) + 1]>>

\* f"{metadata.get(key, '')}" of an int-valued key: <<>> absent, <<n>> present
Fmt(opt) == IF opt = <<>> THEN <<>> ELSE Dec(opt[1])

\* hashlib.md5(content).hexdigest(): a digest that tells any two contents apart
Md5Full(content) == <<"#">> \o content

\* add_documents lines 256-258
DocId(text, metadata) ==
    Md5Full(text \o metadata.filename \o Fmt(metadata.chunk_index)
                 \o Fmt(metadata.total_chunks) \o metadata.split_strategy)

EmptyBatch == [texts |-> <<>>, metadatas |-> <<>>, embeddings |-> <<>>, ids |-> <<>>]

\* A filter that forgets the ids it has generated within the batch
SeenAfterForgetting(existing_ids, doc_id) == existing_ids

\* add_documents line 271: remember the id within the batch
SeenAfter(existing_ids, doc_id) == existing_ids \cup {doc_id}

RECURSIVE FilterBatch(_, _, _, _, _, _)
\* add_documents lines 253-271: zip the three lists, drop known ids
FilterBatch(texts, metadatas, embeddings_list, withEmb, existing_ids, acc) ==
    IF texts = <<>> \/ metadatas = <<>> \/ embeddings_list = <<>> THEN acc
    ELSE LET doc_id == DocId(Head(texts), Head(metadatas))
         IN  IF doc_id \in existing_ids
             THEN FilterBatch(Tail(texts), Tail(metadatas), Tail(embeddings_list),
                              withEmb, existing_ids, acc)
             ELSE FilterBatch(Tail(texts), Tail(metadatas), Tail(embeddings_list),
                      withEmb, SeenAfter(existing_ids, doc_id),
                      [texts |-> Append(acc.texts, Head(texts)),
                       metadatas |-> Append(acc.metadatas, Head(metadatas)),
                       embeddings |-> IF withEmb
                                      THEN Append(acc.embeddings, Head(embeddings_list))
                                      ELSE acc.embeddings,
                       ids |-> Append(acc.ids, doc_id)])

\* add_documents lines 273-278: the filtered lists replace the arguments
Filtered(b, embeddings) ==
    [texts |-> b.texts, metadatas |-> b.metadatas, ids |-> b.ids,
     embeddings |-> IF Truthy(embeddings) THEN Given(b.embeddings) ELSE embeddings]

\* add_documents line 252
EmbeddingsList(texts, embeddings) ==
    IF Truthy(embeddings) THEN embeddings.list ELSE [i \in 1..Len(texts) |-> <<>>]

\* add_documents lines 232-278: the batch after generating ids
Generated(texts, metadatas, embeddings, ids, existing_ids) ==
    IF ~ids.given
    THEN Filtered(FilterBatch(texts, metadatas, EmbeddingsList(texts, embeddings),
                              Truthy(embeddings), existing_ids, EmptyBatch),
                  embeddings)
    ELSE [texts |-> texts, metadatas |-> metadatas, ids |-> ids.list,
          embeddings |-> embeddings]

\* add_documents lines 281-286
WithDimension(b) ==
    IF Truthy(b.embeddings)
    THEN [b EXCEPT !.metadatas =
              [i \in 1..Len(b.metadatas) |->
                  [b.metadatas[i] EXCEPT !.embedding_dimension = <<Len(b.embeddings.list[1])>>]]]
    ELSE b

Min(a, b) == IF a < b THEN a ELSE b

\* add_documents lines 294-298
TruncatedTo(b, min_len) ==
    [texts |-> Prefix(b.texts, min_len),
     metadatas |-> Prefix(b.metadatas, min_len),
     ids |-> Prefix(b.ids, min_len),
     embeddings |-> IF Truthy(b.embeddings)
                    THEN Given(Prefix(b.embeddings.list, min_len))
                    ELSE b.embeddings]

\* add_documents lines 290-298
Truncated(b) ==
    IF b.ids # <<>> /\ Len(b.ids) # Len(b.texts)
    THEN TruncatedTo(b, Min(Len(b.ids), Min(Len(b.texts), Len(b.metadatas))))
    ELSE b

\* add_documents lines 301-304: the final validation passes
Consistent(b) ==
    /\ Len(b.texts) = Len(b.metadatas) /\ Len(b.metadatas) = Len(b.ids)
    /\ ~(Truthy(b.embeddings) /\ Len(b.embeddings.list) # Len(b.texts))

\* collection.add without embeddings (lines 319-324): the collection's own
\* embedding function computes the vector; like every vector of the model it
\* has one component
EmbeddingFunction(text) == <<0>>

\* The documents collection.add stores: embedding is <<v>> for the vector v
BatchDocs(b) ==
    [i \in 1..Len(b.ids) |->
        [id |-> b.ids[i], text |-> b.texts[i], metadata |-> b.metadatas[i],
         embedding |-> IF Truthy(b.embeddings) THEN <<b.embeddings.list[i]>>
                       ELSE <<EmbeddingFunction(b.texts[i])>>]]

\* collection.add returns (does not raise): Chroma refuses a batch that repeats an
\* id; an id already stored is refused or skipped, depending on the Chroma release.
CollectionAddOk(docs, b, addFails, onDup) ==
    /\ ~addFails
    /\ NoDuplicates(b.ids)
    /\ (onDup = "raise" => SeqToSet(b.ids) \cap SeqToSet(IdsOf(docs)) = {})

\* A collection that stores every document of the batch, ids it holds included
CollectionAddAppending(docs, b) == docs \o BatchDocs(b)

\* collection.add: the collection afterwards
CollectionAdd(docs, b) ==
    docs \o SelectSeq(BatchDocs(b), LAMBDA d : d.id \notin SeqToSet(IdsOf(docs)))

\* A snapshot that never sees a stored id
ExistingIdsBlind(docs, getFails) == {}

\* add_documents lines 237-243: the ids already stored; a failing get is swallowed
ExistingIds(docs, getFails) == IF getFails THEN {} ELSE SeqToSet(IdsOf(docs))

\* A target step that creates the missing collection without its original name
TargetNamedUnmapped(w, mapped, collection_name, indexDown, io) ==
    IF ClientGetOk(w.index, mapped, indexDown)
    THEN Returned(w.index, w.mapping, w.file, mapped, FALSE, TRUE, <<>>)
    ELSE create_collection(w, collection_name, None, indexDown, io)

\* add_documents lines 205-225, for the name the mapping gives
TargetNamed(w, mapped, collection_name, indexDown, io) ==
    IF ClientGetOk(w.index, mapped, indexDown)
    THEN Returned(w.index, w.mapping, w.file, mapped, FALSE, TRUE, <<>>)
    ELSE create_collection(w, collection_name, collection_name, indexDown, io)

\* add_documents lines 201-228: the target collection
Target(w, collection_name, indexDown, io) ==
    TargetNamed(w, get_actual_name(w.mapping, collection_name), collection_name,
                indexDown, io)

\* add_documents lines 300-340, for the batch b and the target t
Store(t, b, addFails, onDup) ==
    IF ~Consistent(b)
    THEN Raised(t, "ValueError")
    ELSE IF b.texts = <<>>
    THEN Returned(t.index, t.mapping, t.file, t.actual, FALSE, TRUE, <<>>)
    ELSE IF CollectionAddOk(t.index[t.actual], b, addFails, onDup)
    THEN Returned([t.index EXCEPT ![t.actual] = CollectionAdd(t.index[t.actual], b)],
                  t.mapping, t.file, t.actual, FALSE, TRUE, b.ids)
    ELSE Raised(t, "ChromaError")

\* add_documents lines 230-340, for the target t
AddTo(t, texts, metadatas, embeddings, ids, flt, onDup) ==
    IF ~t.ok THEN t
    ELSE Store(t,
               Truncated(WithDimension(
                   Generated(texts, metadatas, embeddings, ids,
                             ExistingIds(t.index[t.actual], flt = "snapshot")))),
               flt = "add", onDup)

\* VectorStore.add_documents; flt names the index call that fails, if any
add_documents(w, collection_name, texts, metadatas, embeddings, ids, flt, onDup, io) ==
    AddTo(Target(w, collection_name, flt = "resolve", io),
          texts, metadatas, embeddings, ids, flt, onDup)

\* top_k = 5, the default of query
DefaultTopK == 5

\* collection.query: the ids of the n_results nearest documents
CollectionQuery(docs, n_results) == Prefix(IdsOf(docs), n_results)

\* A query that creates the collection it does not find, as add_documents does
QueryNamedCreating(w, actual_name, n_results, flt) ==
    IF ~ClientGetOk(w.index, actual_name, flt = "resolve")
    THEN Returned(ClientCreate(w.index, actual_name), w.mapping, w.file, actual_name,
                  FALSE, TRUE, <<>>)
    ELSE Returned(w.index, w.mapping, w.file, actual_name, FALSE, TRUE,
                  CollectionQuery(w.index[actual_name], n_results))

\* query lines 367-388, for the resolved name; ids is the 'ids' of the result
QueryNamed(w, actual_name, n_results, flt) ==
    IF ~ClientGetOk(w.index, actual_name, flt = "resolve")
    THEN Raised(w, "ValueError")
    ELSE IF flt = "query"
    THEN Raised(w, "ChromaError")
    ELSE Returned(w.index, w.mapping, w.file, actual_name, FALSE, TRUE,
                  CollectionQuery(w.index[actual_name], n_results))

\* VectorStore.query; flt names the index call that fails, if any
query(w, collection_name, n_results, flt) ==
    QueryNamed(w, get_actual_name(w.mapping, collection_name), n_results, flt)

\* collection.delete(ids=ids): the collection afterwards
CollectionDelete(docs, ids) == SelectSeq(docs, LAMBDA d : d.id \notin SeqToSet(ids))

\* delete_documents lines 448-455, for the resolved name
DeleteDocumentsNamed(w, actual_name, ids, flt) ==
    IF ClientGetOk(w.index, actual_name, flt = "resolve") /\ flt # "delete"
    THEN Returned([w.index EXCEPT ![actual_name] = CollectionDelete(w.index[actual_name], ids)],
                  w.mapping, w.file, actual_name, FALSE, TRUE, <<>>)
    ELSE Returned(w.index, w.mapping, w.file, actual_name, FALSE, FALSE, <<>>)

\* A delete_documents that takes the name it is given for the storage id
DeleteDocumentsUnresolved(w, collection_name, ids, flt) ==
    DeleteDocumentsNamed(w, collection_name, ids, flt)

\* VectorStore.delete_documents: flag is the returned bool
delete_documents(w, collection_name, ids, flt) ==
    DeleteDocumentsNamed(w, get_actual_name(w.mapping, collection_name), ids, flt)

\* collection.get(limit=1): include defaults to documents and metadatas, so the
\* 'embeddings' of the result is None
CollectionGetOne(docs) ==
    [embeddings |-> <<>>,
     metadatas |-> IF docs = <<>> THEN <<>> ELSE <<docs[1].metadata>>]

\* get_collection_dimension lines 492-504: <<n>> is the int n, <<>> is None
DimensionOf(results) ==
    IF results.embeddings # <<>> /\ results.embeddings[1] # <<>>
    THEN <<Len(results.embeddings[1])>>
    ELSE IF results.metadatas # <<>>
    THEN results.metadatas[1].embedding_dimension
    ELSE <<>>

\* get_collection_dimension lines 486-508, for the resolved name
DimensionNamed(w, actual_name, flt) ==
    Returned(w.index, w.mapping, w.file, actual_name, FALSE, TRUE,
             IF ClientGetOk(w.index, actual_name, flt = "resolve")
             THEN DimensionOf(CollectionGetOne(w.index[actual_name]))
             ELSE <<>>)

\* VectorStore.get_collection_dimension: ids holds the returned value
get_collection_dimension(w, collection_name, flt) ==
    DimensionNamed(w, get_actual_name(w.mapping, collection_name), flt)

\* VectorStore.get_collection_display_info, as the set of its rows
get_collection_display_info(w) ==
    {[actual_name |-> n,
      original_name |-> get_original_name(w.mapping, n),
      display_name |-> IF Falsy(get_original_name(w.mapping, n))
                       THEN n ELSE get_original_name(w.mapping, n)] : n \in DOMAIN w.index}

----------------------------------------------------------------------------
(* splitter.py: TextSplitter *)

SetMin(S) == CHOOSE x \in S : \A y \in S : x <= y
SetMax(S) == CHOOSE x \in S : \A y \in S : y <= x

\* s[a:b] for 0 <= a
Slice(s, a, b) == SubSeq(s, a + 1, Min(b, Len(s)))

\* TextSplitter.__init__: max_chunk_size is <<>> for None
TextSplitter(strategy, chunk_size, chunk_overlap, min_chunk_size, max_chunk_size) ==
    [strategy |-> strategy, chunk_size |-> chunk_size, chunk_overlap |-> chunk_overlap,
     min_chunk_size |-> min_chunk_size,
     max_chunk_size |-> IF max_chunk_size = <<>> \/ max_chunk_size = <<0>>
                        THEN chunk_size * 2 ELSE max_chunk_size[1]]

\* The delimiters _split_fixed looks for, in its order of preference
Delimiters ==
    << <<"NL", "NL">>, <<"U+3002", "NL">>, <<"U+3002">>, <<"NL">>, <<"U+FF01">>,
       <<"U+FF1F">>, <<".", " ">>, <<"!", " ">>, <<"?", " ">> >>

\* text.rfind(delimiter, start, end): the last match inside text[start:end], or -1
RFind(text, delimiter, start, end) ==
    LET hits == {i \in start..(Min(end, Len(text)) - Len(delimiter)) :
                     Slice(text, i, i + Len(delimiter)) = delimiter}
    IN  IF hits = {} THEN -1 ELSE SetMax(hits)

\* _split_fixed lines 102-107: where the chunk that starts at start ends
SplitPos(text, start, end) ==
    LET found == {k \in 1..Len(Delimiters) : RFind(text, Delimiters[k], start, end) # -1}
    IN  IF found = {} THEN end
        ELSE RFind(text, Delimiters[SetMin(found)], start, end)
                 + Len(Delimiters[SetMin(found)])

\* A next start one character beyond the boundary
NextStartSkipping(start, split_pos, cfg) == split_pos + 1

\* A next start that trusts the boundary to lie beyond the overlap
NextStartUnguarded(start, split_pos, cfg) == split_pos - cfg.chunk_overlap

\* _split_fixed line 113: start = max(start + 1, split_pos - self.chunk_overlap)
NextStart(start, split_pos, cfg) ==
    IF start + 1 > split_pos - cfg.chunk_overlap
    THEN start + 1
    ELSE split_pos - cfg.chunk_overlap

RECURSIVE FixedFrom(_, _, _)
\* _split_fixed lines 94-113: the chunks from position start on
FixedFrom(text, start, cfg) ==
    IF start >= Len(text) THEN <<>>
    ELSE IF start + cfg.chunk_size >= Len(text)
    THEN <<Strip(Slice(text, start, Len(text)))>>
    ELSE (IF Strip(Slice(text, start, SplitPos(text, start, start + cfg.chunk_size))) # <<>>
          THEN <<Strip(Slice(text, start, SplitPos(text, start, start + cfg.chunk_size)))>>
          ELSE <<>>)
         \o FixedFrom(text,
                      NextStart(start, SplitPos(text, start, start + cfg.chunk_size), cfg),
                      cfg)

\* TextSplitter._split_fixed
_split_fixed(text, cfg) ==
    IF Len(text) <= cfg.chunk_size THEN <<text>> ELSE FixedFrom(text, 0, cfg)

\* Number of consecutive characters of chars in s from position i (1-based) on
RunLen(s, i, chars) ==
    SetMin({j \in i..(Len(s) + 1) : j = Len(s) + 1 \/ s[j] \notin chars}) - i

SentenceEndings == {"U+3002", "U+FF01", "U+FF1F", ".", "!", "?"}

\* Length of the match of the separator pattern at position i of s, 0 for none:
\* r'\n{2,}' for paragraphs, r'[。！？.!?]+\s*' for sentences
MatchLen(s, i, pattern) ==
    IF pattern = "paragraph"
    THEN (IF RunLen(s, i, {"NL"}) >= 2 THEN RunLen(s, i, {"NL"}) ELSE 0)
    ELSE (IF RunLen(s, i, SentenceEndings) = 0 THEN 0
          ELSE RunLen(s, i, SentenceEndings)
                   + RunLen(s, i + RunLen(s, i, SentenceEndings), Whitespace))

RECURSIVE ReSplit(_, _, _, _)
\* re.split(pattern, s): the pieces of s from begin on, the scan being at i
ReSplit(s, i, begin, pattern) ==
    IF i > Len(s) THEN <<SubSeq(s, begin, Len(s))>>
    ELSE IF MatchLen(s, i, pattern) > 0
    THEN <<SubSeq(s, begin, i - 1)>>
             \o ReSplit(s, i + MatchLen(s, i, pattern), i + MatchLen(s, i, pattern), pattern)
    ELSE ReSplit(s, i + 1, begin, pattern)

RECURSIVE SplitLong(_, _)
\* The loop of _split_by_newline / _split_by_paragraph / _split_by_sentence:
\* blank parts are skipped, a part above max_chunk_size goes through _split_fixed
SplitLong(parts, cfg) ==
    IF parts = <<>> THEN <<>>
    ELSE (IF Strip(Head(parts)) = <<>> THEN <<>>
          ELSE IF Len(Strip(Head(parts))) > cfg.max_chunk_size
          THEN _split_fixed(Strip(Head(parts)), cfg)
          ELSE <<Strip(Head(parts))>>)
         \o SplitLong(Tail(parts), cfg)

\* TextSplitter._split_by_newline
_split_by_newline(text, cfg) == SplitLong(SplitOn(text, "NL"), cfg)

\* TextSplitter._split_by_paragraph
_split_by_paragraph(text, cfg) == SplitLong(ReSplit(text, 1, 1, "paragraph"), cfg)

\* TextSplitter._split_by_sentence
_split_by_sentence(text, cfg) == SplitLong(ReSplit(text, 1, 1, "sentence"), cfg)

RECURSIVE SmartParagraphs(_, _)
\* _split_smart lines 192-207
SmartParagraphs(paragraphs, cfg) ==
    IF paragraphs = <<>> THEN <<>>
    ELSE (IF Strip(Head(paragraphs)) = <<>> THEN <<>>
          ELSE IF Len(Strip(Head(paragraphs))) <= cfg.chunk_size
          THEN <<Strip(Head(paragraphs))>>
          ELSE IF Len(Strip(Head(paragraphs))) <= cfg.max_chunk_size
          THEN _split_by_sentence(Strip(Head(paragraphs)), cfg)
          ELSE _split_fixed(Strip(Head(paragraphs)), cfg))
         \o SmartParagraphs(Tail(paragraphs), cfg)

\* TextSplitter._split_smart
_split_smart(text, cfg) == SmartParagraphs(ReSplit(text, 1, 1, "paragraph"), cfg)

StrictStrategies == {"newline", "sentence", "paragraph"}

\* _filter_and_merge_chunks line 226
FilterBlank(chunks) ==
    SelectSeq([i \in 1..Len(chunks) |-> Strip(chunks[i])], LAMBDA c : c # <<>>)

\* A merge pass that joins short chunks whatever the length of the result
MergeStepUnbounded(chunk, result, current_chunk, cfg) ==
    IF chunk = <<>> THEN [result |-> result, current_chunk |-> current_chunk]
    ELSE IF Len(chunk) > cfg.max_chunk_size
    THEN [result |-> result \o _split_fixed(chunk, cfg), current_chunk |-> current_chunk]
    ELSE IF Len(chunk) < cfg.min_chunk_size
    THEN (IF current_chunk = <<>> THEN [result |-> result, current_chunk |-> chunk]
          ELSE [result |-> result, current_chunk |-> current_chunk \o <<"NL">> \o chunk])
    ELSE [result |-> (IF current_chunk # <<>> THEN Append(result, current_chunk)
                      ELSE result) \o <<chunk>>,
          current_chunk |-> <<>>]

\* A merge pass that drops a chunk above max_chunk_size
MergeStepDropping(chunk, result, current_chunk, cfg) ==
    IF chunk = <<>> \/ Len(chunk) > cfg.max_chunk_size
    THEN [result |-> result, current_chunk |-> current_chunk]
    ELSE IF Len(chunk) < cfg.min_chunk_size
    THEN (IF current_chunk = <<>> THEN [result |-> result, current_chunk |-> chunk]
          ELSE IF Len(current_chunk \o <<"NL">> \o chunk) <= cfg.max_chunk_size
          THEN [result |-> result, current_chunk |-> current_chunk \o <<"NL">> \o chunk]
          ELSE [result |-> Append(result, current_chunk), current_chunk |-> chunk])
    ELSE [result |-> (IF current_chunk # <<>> THEN Append(result, current_chunk)
                      ELSE result) \o <<chunk>>,
          current_chunk |-> <<>>]

\* _filter_and_merge_chunks lines 233-264: one round of the loop, for the
\* stripped chunk
MergeStep(chunk, result, current_chunk, cfg) ==
    IF chunk = <<>> THEN [result |-> result, current_chunk |-> current_chunk]
    ELSE IF Len(chunk) > cfg.max_chunk_size
    THEN [result |-> result \o _split_fixed(chunk, cfg), current_chunk |-> current_chunk]
    ELSE IF Len(chunk) < cfg.min_chunk_size
    THEN (IF current_chunk = <<>> THEN [result |-> result, current_chunk |-> chunk]
          ELSE IF Len(current_chunk \o <<"NL">> \o chunk) <= cfg.max_chunk_size
          THEN [result |-> result, current_chunk |-> current_chunk \o <<"NL">> \o chunk]
          ELSE [result |-> Append(result, current_chunk), current_chunk |-> chunk])
    ELSE [result |-> (IF current_chunk # <<>> THEN Append(result, current_chunk)
                      ELSE result) \o <<chunk>>,
          current_chunk |-> <<>>]

RECURSIVE MergeChunks(_, _, _)
\* _filter_and_merge_chunks lines 230-270, acc being result and current_chunk
MergeChunks(chunks, acc, cfg) ==
    IF chunks = <<>>
    THEN (IF acc.current_chunk # <<>> THEN Append(acc.result, acc.current_chunk)
          ELSE acc.result)
    ELSE MergeChunks(Tail(chunks),
                     MergeStep(Strip(Head(chunks)), acc.result, acc.current_chunk, cfg),
                     cfg)

\* TextSplitter._filter_and_merge_chunks
_filter_and_merge_chunks(chunks, cfg) ==
    IF chunks = <<>> THEN <<>>
    ELSE IF cfg.strategy \in StrictStrategies THEN FilterBlank(chunks)
    ELSE MergeChunks(chunks, [result |-> <<>>, current_chunk |-> <<>>], cfg)

\* split_text lines 67-78: the split of the stripped text by the strategy
SplitBy(text, cfg) ==
    CASE cfg.strategy = "fixed" -> _split_fixed(text, cfg)
      [] cfg.strategy = "newline" -> _split_by_newline(text, cfg)
      [] cfg.strategy = "paragraph" -> _split_by_paragraph(text, cfg)
      [] cfg.strategy = "sentence" -> _split_by_sentence(text, cfg)
      [] OTHER -> _split_smart(text, cfg)

\* TextSplitter.split_text
split_text(text, cfg) ==
    IF text = <<>> \/ Strip(text) = <<>> THEN <<>>
    ELSE _filter_and_merge_chunks(SplitBy(Strip(text), cfg), cfg)

----------------------------------------------------------------------------
(* Inputs of the model *)

MaxBatch == 2
MaxCut == 1

NameSpace == <<"a", " ", "b">>
NameDot == <<"a", ".", "b">>
NameId == <<"a", "_", "b">>

NameOther == <<"a", "b", "c">>

\* A valid name behind a leading space
NamePadded == <<" ">> \o NameOther

\* Display names of the lifecycle specification: two that sanitize to the same
\* storage id, that id itself, an unrelated valid name, and that name padded
DisplayNames == {NameSpace, NameDot, NameId, NameOther, NamePadded}

\* The collection of the batch specification, by its display name
BatchNames == {NameSpace}

Texts == {<<"a">>, <<"a", "b">>}

Meta(i) ==
    [filename |-> <<"f">>, chunk_index |-> <<i>>, total_chunks |-> <<2>>,
     split_strategy |-> <<>>, embedding_dimension |-> <<>>]

Vector == <<0>>

\* All sequences over S of length 0..n
SeqsUpTo(S, n) == UNION {[1..k -> S] : k \in 0..n}

IoOutcomes == {IoOk, IoOpenFails} \cup {IoWriteFails(c) : c \in 0..MaxCut}

\* What the index does during one add_documents call: the call of the code that
\* fails, if any, and Chroma's answer to an id it already stores
Env(flt, onDup) == [flt |-> flt, onDup |-> onDup]

LifecycleEnvs == {Env("none", "raise"), Env("resolve", "raise")}

BatchEnvs ==
    {Env("none", "raise"), Env("none", "skip"), Env("snapshot", "raise"),
     Env("snapshot", "skip"), Env("add", "raise")}

\* The batch of the lifecycle specification: one chunk with its vector
OneChunk ==
    [texts |-> <<<<"a">>>>, metadatas |-> <<Meta(0)>>,
     embeddings |-> Given(<<Vector>>), ids |-> Absent]

LifecycleBatches == {OneChunk}

\* Id lists handed to delete_documents: none, and the id of the lifecycle chunk
DeletedIds == {<<>>, <<DocId(<<"a">>, Meta(0))>>}

\* Batches without ids: the three lists vary in length on their own
GeneratedBatches ==
    {[texts |-> t, metadatas |-> m, embeddings |-> e, ids |-> Absent] :
        t \in SeqsUpTo(Texts, MaxBatch),
        m \in SeqsUpTo({Meta(0)}, MaxBatch),
        e \in {Absent} \cup {Given(v) : v \in SeqsUpTo({Vector}, MaxBatch)}}

\* Batches with ids given by the caller
ExplicitBatches ==
    {[texts |-> t, metadatas |-> m, embeddings |-> e, ids |-> i] :
        t \in {<<<<"a">>>>, <<<<"a">>, <<"a", "b">>>>},
        m \in {<<Meta(0)>>, <<Meta(0), Meta(0)>>},
        e \in {Absent, Given(<<Vector>>)},
        i \in {Given(<<>>), Given(<<<<"i">>>>)}}

Batches == GeneratedBatches \cup ExplicitBatches

----------------------------------------------------------------------------
(* State *)

Threads == {1, 2}

World == [index |-> index, mapping |-> mapping, file |-> file]

NoBatch == [texts |-> <<>>, metadatas |-> <<>>, embeddings |-> Absent, ids |-> Absent]

\* The record of a completed call
Call(op, name, batch, flt, io, r, pre) ==
    [op |-> op, name |-> name, batch |-> batch, flt |-> flt, io |-> io,
     ok |-> r.ok, err |-> r.err, flag |-> r.flag, actual |-> r.actual,
     converted |-> r.converted, ids |-> r.ids, pre |-> pre]

NoResult == Returned(<<>>, <<>>, NoFile, <<>>, FALSE, FALSE, <<>>)

NoCall ==
    Call("init", <<>>, NoBatch, "none", IoOk, NoResult,
         [index |-> <<>>, mapping |-> <<>>, file |-> NoFile])

Idle == [op |-> "idle", k |-> <<>>, v |-> <<>>, buf |-> <<>>]

\* A fresh data directory: no collection, no mapping file
Init ==
    /\ index = <<>>
    /\ mapping = <<>>
    /\ file = NoFile
    /\ last = NoCall
    /\ pc = [t \in Threads |-> "idle"]
    /\ loc = [t \in Threads |-> Idle]

Apply(r) ==
    /\ index' = r.index
    /\ mapping' = r.mapping
    /\ file' = r.file

----------------------------------------------------------------------------
(* Calls, one at a time *)

\* The caller holds no unread result: the next call may start
Quiescent == last = NoCall

\* The caller reads the result of the call it made
Observe ==
    /\ ~Quiescent
    /\ last' = NoCall
    /\ UNCHANGED <<index, mapping, file, pc, loc>>

\* A call completes with outcome r
Commit(op, name, batch, flt, io, r) ==
    /\ Quiescent
    /\ Apply(r)
    /\ last' = Call(op, name, batch, flt, io, r, World)
    /\ UNCHANGED <<pc, loc>>

FaultOf(indexDown) == IF indexDown THEN "resolve" ELSE "none"

\* KnowledgeBaseManager.create_knowledge_base -> VectorStore.create_collection
CreateCollection(names) ==
    \E name \in names, io \in IoOutcomes, indexDown \in BOOLEAN :
        Commit("create", name, NoBatch, FaultOf(indexDown), io,
               create_collection(World, name, name, indexDown, io))

\* VectorStore.delete_collection
DeleteCollection(names) ==
    \E name \in names, io \in IoOutcomes, indexDown \in BOOLEAN :
        Commit("delete", name, NoBatch, FaultOf(indexDown), io,
               delete_collection(World, name, indexDown, io))

\* VectorStore.delete_collection while index and file work
DropCollection(names) ==
    \E name \in names :
        Commit("delete", name, NoBatch, "none", IoOk,
               delete_collection(World, name, FALSE, IoOk))

\* VectorStore.add_documents
AddDocuments(names, batches, envs, ios) ==
    \E name \in names, b \in batches, env \in envs, io \in ios :
        Commit("add", name, b, env.flt, io,
               add_documents(World, name, b.texts, b.metadatas, b.embeddings, b.ids,
                             env.flt, env.onDup, io))

\* VectorStore.query
Query(names) ==
    \E name \in names, flt \in {"none", "resolve", "query"} :
        Commit("query", name, NoBatch, flt, IoOk,
               query(World, name, DefaultTopK, flt))

\* VectorStore.delete_documents; the ids are in the batch of the call record
DeleteDocuments(names) ==
    \E name \in names, ids \in DeletedIds, flt \in {"none", "resolve", "delete"} :
        Commit("delete_documents", name, [NoBatch EXCEPT !.ids = Given(ids)], flt, IoOk,
               delete_documents(World, name, ids, flt))

\* VectorStore.get_collection_dimension
GetDimension(names) ==
    \E name \in names, flt \in {"none", "resolve"} :
        Commit("get_dimension", name, NoBatch, flt, IoOk,
               get_collection_dimension(World, name, flt))

\* The process starts again: NameMapping.__init__ loads the file
Restart(faults) ==
    \E openFails \in faults :
        /\ Quiescent
        /\ mapping' = LoadMapping(file, openFails)
        /\ last' = Call("restart", <<>>, NoBatch, IF openFails THEN "open" ELSE "none",
                        IoOk, NoResult, World)
        /\ UNCHANGED <<index, file, pc, loc>>

\* Contents of name_mapping.json that are not a JSON object: an empty file, an
\* object cut off after an entry, and a JSON list holding an object
DamagedFiles ==
    {<<>>,
     <<TokOpen, TokEntry([k |-> NameId, v |-> NameSpace])>>,
     <<TokListOpen, TokOpen, TokEntry([k |-> NameId, v |-> NameSpace]), TokClose,
       TokListClose>>}

\* Something other than this program rewrites name_mapping.json
Damage ==
    \E data \in DamagedFiles :
        /\ Quiescent
        /\ file' = [exists |-> TRUE, data |-> data]
        /\ last' = Call("damage", <<>>, NoBatch, "none", IoOk, NoResult, World)
        /\ UNCHANGED <<index, mapping, pc, loc>>

\* Collection lifecycle, with failing file writes and restarts
Next ==
    \/ CreateCollection(DisplayNames)
    \/ DeleteCollection(DisplayNames)
    \/ AddDocuments(DisplayNames, LifecycleBatches, LifecycleEnvs, IoOutcomes)
    \/ Query(DisplayNames)
    \/ DeleteDocuments(DisplayNames)
    \/ GetDimension(DisplayNames)
    \/ Restart(BOOLEAN)
    \/ Damage
    \/ Observe

Spec == Init /\ [][Next]_vars

\* Document batches into one collection
NextDocs ==
    \/ AddDocuments(BatchNames, Batches, BatchEnvs, {IoOk})
    \/ DropCollection(BatchNames)
    \/ GetDimension(BatchNames)
    \/ Observe

SpecDocs == Init /\ [][NextDocs]_vars

----------------------------------------------------------------------------
(* The NameMapping store on its own, file I/O succeeding *)

\* Storage ids and display names handed to the store
StoreIds == {NameId, NameOther}
StoreNames == {NameSpace, NameDot, NameId}

\* The outcome r of a NameMapping call on actual_name, as a call result
StoreResult(r, actual_name) ==
    Returned(index, r.mapping, r.file, actual_name, FALSE, TRUE, <<>>)

\* NameMapping.add_mapping(actual_name, original_name)
AddMapping ==
    \E actual_name \in StoreIds, original_name \in StoreNames :
        Commit("add_mapping", original_name, NoBatch, "none", IoOk,
               StoreResult(add_mapping(mapping, file, actual_name, original_name, IoOk),
                           actual_name))

\* NameMapping.remove_mapping(actual_name)
RemoveMapping ==
    \E actual_name \in StoreIds :
        Commit("remove_mapping", <<>>, NoBatch, "none", IoOk,
               StoreResult(remove_mapping(mapping, file, actual_name, IoOk), actual_name))

NextStore == AddMapping \/ RemoveMapping \/ Restart({FALSE}) \/ Observe

SpecStore == Init /\ [][NextStore]_vars

----------------------------------------------------------------------------
(* utils.py on its own: the name functions over a set of names *)

MaxNameChars == 3

NameAlphabet == {"a", "1", "_", ".", " ", "U+4E2D", "U+00E9"}

Repeat(c, n) == [i \in 1..n |-> c]

NameIPv4 == <<"1", ".", "2", ".", "3", ".", "4">>

\* Names longer than Chroma allows
LongNames ==
    {Repeat("a", MaxNameLen + 1),
     Repeat("a", TruncLen - 1) \o Repeat("_", MaxNameLen),
     Repeat("a", MaxNameLen) \o <<"U+4E2D">>,
     <<".">> \o Repeat("1", MaxNameLen + 1) \o <<" ">>}

\* Names of the shape of an IPv4 address
IPv4Names ==
    {NameIPv4, <<" ">> \o NameIPv4 \o <<"U+3000">>,
     <<"1", "9", "2", ".", "1", "6", "8", ".", "1", ".", "1">>}

AllNames == SeqsUpTo(NameAlphabet, MaxNameChars) \cup LongNames \cup IPv4Names

\* The outcome of sanitize_collection_name as a call result
SanitizeCall(w, r) ==
    IF r.ok
    THEN Returned(w.index, w.mapping, w.file, r.name, r.converted, TRUE, <<>>)
    ELSE Raised(w, "ValueError")

\* sanitize_collection_name(name)
Sanitize ==
    /\ Quiescent
    /\ \E name \in AllNames :
        Commit("sanitize", name, NoBatch, "none", IoOk,
               SanitizeCall(World, sanitize_collection_name(name)))

\* validate_collection_name(name): flag is the returned bool
Validate ==
    /\ Quiescent
    /\ \E name \in AllNames :
        Commit("validate", name, NoBatch, "none", IoOk,
               Returned(index, mapping, file, name, FALSE,
                        validate_collection_name(name), <<>>))

NextNames == Sanitize \/ Validate \/ Observe

SpecNames == Init /\ [][NextNames]_vars

----------------------------------------------------------------------------
(* splitter.py on its own: texts and splitter configurations *)

MaxText == 3

TextAlphabet == {"a", "b", " ", "NL", "."}

\* Longer texts: two paragraphs, two lines, sentences, a run of blank lines
LongTexts ==
    {<<"a", "NL", "NL", "b", "b">>,
     <<"a", "NL", "b", "b", "b">>,
     <<"a", "a", ".", " ", "b", "b", ".", " ", "a">>,
     <<"a", "NL", "NL", "NL", "b", "NL", "a", "b", "a", "b", "a">>,
     <<"a", "b", "a", "b", "a", "b", "a", "b">>}

SplitTexts == SeqsUpTo(TextAlphabet, MaxText) \cup LongTexts

Strategies == {"fixed", "newline", "paragraph", "sentence", "smart"}

\* The splitters of the model: chunk_overlap below, at and above chunk_size,
\* max_chunk_size left out and below chunk_size
Splitters ==
    {TextSplitter(s, c, o, m, x) :
        s \in Strategies, c \in {1, 2, 3}, o \in {0, 1, 3}, m \in {1, 2},
        x \in {<<>>, <<1>>, <<2>>}}

\* Arguments of the constructor: an unknown strategy, chunk_size 0 and a
\* negative chunk_overlap among them
ConstructorArgs ==
    [strategy : Strategies \cup {"semantic"}, chunk_size : {0, 1, 2},
     chunk_overlap : {-1, 0, 1, 2}, min_chunk_size : {1}, max_chunk_size : {<<>>, <<1>>}]

\* TextSplitter(strategy, chunk_size, chunk_overlap, min_chunk_size,
\* max_chunk_size): the arguments are in the batch of the call record
Construct ==
    /\ Quiescent
    /\ \E a \in ConstructorArgs :
        Commit("construct", <<>>, a, "none", IoOk,
               IF a.strategy \in Strategies
               THEN Returned(index, mapping, file, <<>>, FALSE, TRUE, <<>>)
               ELSE Raised(World, "ValueError"))

\* TextSplitter.split_text(text): ids holds the chunks returned
SplitText ==
    /\ Quiescent
    /\ \E text \in SplitTexts, cfg \in Splitters :
        Commit("split", text, cfg, "none", IoOk,
               Returned(index, mapping, file, <<>>, FALSE, TRUE, split_text(text, cfg)))

NextSplit == Construct \/ SplitText \/ Observe

SpecSplit == Init /\ [][NextSplit]_vars

----------------------------------------------------------------------------
(* Two threads in one VectorStore, one NameMapping: no lock anywhere in the source *)

NameOther2 == <<"b", " ", "a">>
ConcNames == {NameSpace, NameDot, NameOther2}

\* The mapping call a create_collection(name, name) goes on to make, if any
CreateMappingCall(a, name) ==
    IF a.name # name
       /\ (a.name \in DOMAIN index => Falsy(get_original_name(mapping, a.name)))
    THEN [op |-> "add", k |-> a.name, v |-> name, buf |-> <<>>]
    ELSE Idle

\* create_collection lines 61-103 by thread t: get or create the collection
ConcCreate(t) ==
    \E name \in ConcNames :
        LET call == CreateMappingCall(ActualName(name, name), name)
        IN  /\ pc[t] = "idle"
            /\ ActualName(name, name).ok
            /\ index' = ClientCreate(index, ActualName(name, name).name)
            /\ loc' = [loc EXCEPT ![t] = call]
            /\ pc' = [pc EXCEPT ![t] = IF call = Idle THEN "done" ELSE "call"]
            /\ UNCHANGED <<mapping, file, last>>

\* delete_collection lines 125-129 by thread t: resolve, delete from the index
ConcDelete(t) ==
    \E name \in ConcNames :
        LET actual_name == get_actual_name(mapping, name)
        IN  /\ pc[t] = "idle"
            /\ index' = ClientDelete(index, actual_name)
            /\ loc' = [loc EXCEPT ![t] =
                          IF actual_name \in DOMAIN index
                          THEN [op |-> "remove", k |-> actual_name, v |-> <<>>, buf |-> <<>>]
                          ELSE Idle]
            /\ pc' = [pc EXCEPT ![t] = IF actual_name \in DOMAIN index THEN "call" ELSE "done"]
            /\ UNCHANGED <<mapping, file, last>>

\* add_mapping line 67: self.mapping[actual_name] = original_name
ConcSet(t) ==
    /\ pc[t] = "call" /\ loc[t].op = "add"
    /\ mapping' = MapPut(mapping, loc[t].k, loc[t].v)
    /\ pc' = [pc EXCEPT ![t] = "mutated"]
    /\ UNCHANGED <<index, file, last, loc>>

\* remove_mapping line 107: if actual_name in self.mapping
ConcTest(t) ==
    /\ pc[t] = "call" /\ loc[t].op = "remove"
    /\ pc' = [pc EXCEPT ![t] = IF MapHas(mapping, loc[t].k) THEN "found" ELSE "done"]
    /\ UNCHANGED <<index, mapping, file, last, loc>>

\* remove_mapping line 108: del self.mapping[actual_name]; KeyError if it has gone
ConcDel(t) ==
    /\ pc[t] = "found"
    /\ mapping' = MapDel(mapping, loc[t].k)
    /\ pc' = [pc EXCEPT ![t] = IF MapHas(mapping, loc[t].k) THEN "mutated" ELSE "done"]
    /\ UNCHANGED <<index, file, last, loc>>

\* _save_mapping line 51: open(self.mapping_file, 'w') truncates the file
ConcOpen(t) ==
    /\ pc[t] = "mutated"
    /\ file' = [exists |-> TRUE, data |-> <<>>]
    /\ pc' = [pc EXCEPT ![t] = "opened"]
    /\ UNCHANGED <<index, mapping, last, loc>>

\* _save_mapping line 52: json.dump writes the table as it is now into the buffer
ConcDump(t) ==
    /\ pc[t] = "opened"
    /\ loc' = [loc EXCEPT ![t].buf = Serialize(mapping)]
    /\ pc' = [pc EXCEPT ![t] = "dumped"]
    /\ UNCHANGED <<index, mapping, file, last>>

\* _save_mapping line 51, leaving the with block: the buffer is flushed at offset 0
ConcClose(t) ==
    /\ pc[t] = "dumped"
    /\ file' = [exists |-> TRUE,
                data |-> loc[t].buf \o Suffix(file.data, Len(loc[t].buf))]
    /\ pc' = [pc EXCEPT ![t] = "done"]
    /\ UNCHANGED <<index, mapping, last, loc>>

\* Both calls have returned: the two threads take their next requests
ConcReturn ==
    /\ \A t \in Threads : pc[t] = "done"
    /\ pc' = [t \in Threads |-> "idle"]
    /\ loc' = [t \in Threads |-> Idle]
    /\ UNCHANGED <<index, mapping, file, last>>

NextConc ==
    \/ \E t \in Threads :
          \/ ConcCreate(t) \/ ConcDelete(t)
          \/ ConcSet(t) \/ ConcTest(t) \/ ConcDel(t)
          \/ ConcOpen(t) \/ ConcDump(t) \/ ConcClose(t)
    \/ ConcReturn

SpecConc == Init /\ [][NextConc]_vars

----------------------------------------------------------------------------
(* Vocabulary of the claims *)

\* resolve(nameOrId) in the current state
Resolve(name) == get_actual_name(mapping, name)

\* The documents of collection c in index idx; none if c is absent
DocsIn(idx, c) == IF c \in DOMAIN idx THEN idx[c] ELSE <<>>

\* The call just completed was add_documents without ids, and the index answered
\* every read of it
GeneratedAdd == last.op = "add" /\ ~last.batch.ids.given /\ last.flt \in {"none", "add"}

\* Number of (text, metadata, embedding) triples of a batch
TripleCount(b) ==
    Min(Len(b.texts), Min(Len(b.metadatas), Len(EmbeddingsList(b.texts, b.embeddings))))

\* Fingerprints of the triples of a batch
Fingerprints(b) == {DocId(b.texts[i], b.metadatas[i]) : i \in 1..TripleCount(b)}

\* The three lists of a batch line up
LinedUp(b) ==
    /\ Len(b.texts) = Len(b.metadatas)
    /\ (Truthy(b.embeddings) => Len(b.embeddings.list) = Len(b.texts))

\* ids stored in the target collection before the last call
StoredBefore == SeqToSet(IdsOf(DocsIn(last.pre.index, last.actual)))

\* How many documents of docs carry id
Copies(docs, id) == Cardinality({i \in 1..Len(docs) : docs[i].id = id})

----------------------------------------------------------------------------
(* C1 *)

\* C1: an add_documents call (ids not supplied) whose tuples are all stored already
\* in the target collection returns an empty id list without error and writes
\* nothing, and the collection holds exactly one document per such tuple; a call
\* with one tuple that is not stored yet returns its id.
C1_ReuploadAddsNothing ==
    /\ (GeneratedAdd /\ TripleCount(last.batch) >= 1
           /\ Fingerprints(last.batch) \subseteq StoredBefore)
          => /\ last.ok
             /\ last.ids = <<>>
             /\ index = last.pre.index
             /\ \A f \in Fingerprints(last.batch) : Copies(index[last.actual], f) = 1
    /\ (GeneratedAdd /\ last.flt = "none" /\ TripleCount(last.batch) = 1
           /\ Fingerprints(last.batch) \cap StoredBefore = {})
          => /\ last.ok
             /\ SeqToSet(last.ids) = Fingerprints(last.batch)
             /\ \A f \in Fingerprints(last.batch) : Copies(index[last.actual], f) = 1

\* A second upload of a stored tuple has returned
C1_Witness ==
    /\ GeneratedAdd
    /\ TripleCount(last.batch) >= 1
    /\ Fingerprints(last.batch) \subseteq StoredBefore
    /\ last.ok /\ last.ids = <<>>

----------------------------------------------------------------------------
(* C2 *)

\* C2: for an add_documents call without ids, the returned ids are, without
\* repetition, the fingerprints of the triples of the batch that were not stored in
\* the target collection before the call; the collection grows by exactly that many
\* documents; and no collection ever holds two documents with the same id.
C2_ReturnedIdsAreTheNewFingerprints ==
    /\ (GeneratedAdd /\ last.flt = "none")
          => /\ last.ok
             /\ NoDuplicates(last.ids)
             /\ SeqToSet(last.ids) = Fingerprints(last.batch) \ StoredBefore
             /\ Len(index[last.actual])
                    = Len(DocsIn(last.pre.index, last.actual)) + Len(last.ids)
    /\ \A c \in DOMAIN index : NoDuplicates(IdsOf(index[c]))

\* A batch with a stored fingerprint, a new one and more triples than new ones
C2_Witness ==
    /\ GeneratedAdd /\ last.flt = "none" /\ LinedUp(last.batch)
    /\ Fingerprints(last.batch) \cap StoredBefore # {}
    /\ last.ids # <<>>
    /\ Len(last.ids) < TripleCount(last.batch)

----------------------------------------------------------------------------
(* C9 *)

\* The lists of a batch differ in length
Mismatched(b) ==
    \/ b.embeddings.given /\ Len(b.embeddings.list) # Len(b.texts)
    \/ Len(b.texts) # Len(b.metadatas)
    \/ b.ids.given /\ Len(b.ids.list) # Len(b.texts)

\* No collection gained a document in the last call
NothingStored ==
    \A c \in DOMAIN index : index[c] = DocsIn(last.pre.index, c)

\* C9: add_documents rejects a batch whose lists differ in length with the
\* inconsistent-batch error and stores nothing, also when ids are not supplied.
C9_MismatchRejected ==
    (last.op = "add" /\ last.flt = "none" /\ Mismatched(last.batch))
        => ~last.ok /\ last.err = "ValueError" /\ NothingStored

----------------------------------------------------------------------------
(* C10 *)

\* C10: add_documents with texts and an embeddings list of length 0 is rejected, and
\* no document is written.
C10_EmptyEmbeddingsRejected ==
    (last.op = "add" /\ last.flt = "none" /\ last.batch.texts # <<>>
        /\ last.batch.embeddings = Given(<<>>))
        => ~last.ok /\ NothingStored

----------------------------------------------------------------------------
(* C3 *)

\* The call just completed was create_collection(x), returned storage id # x
ConvertedCreate == last.op = "create" /\ last.ok /\ last.converted

\* C3 as the specification words it: after createCollection(x) returns (id, true),
\* id differs from x, the index holds id, resolve(x) = id and resolve(id) = id.
C3_ResolveAfterCreate ==
    ConvertedCreate
        => /\ last.actual # last.name
           /\ last.actual \in DOMAIN index
           /\ Resolve(last.name) = last.actual
           /\ Resolve(last.actual) = last.actual

\* Before the call, the collection id existed and was mapped to another display name
Collides ==
    /\ last.actual \in DOMAIN last.pre.index
    /\ MapHas(last.pre.mapping, last.actual)
    /\ MapGet(last.pre.mapping, last.actual) # last.name

\* C3, amended: after createCollection(x) returns (id, true), id differs from x, the
\* index holds id and resolve(id) = id; resolve(x) = id unless the collection id
\* existed already with a mapping entry for another display name: then the table is
\* left as it was and resolve(x) = x.
C3_ResolveAfterCreateUnlessCollision ==
    ConvertedCreate
        => /\ last.actual # last.name
           /\ last.actual \in DOMAIN index
           /\ Resolve(last.actual) = last.actual
           /\ IF Collides
              THEN mapping = last.pre.mapping /\ Resolve(last.name) = last.name
              ELSE Resolve(last.name) = last.actual

\* A display name was created onto the storage id of another display name
C3_Witness == ConvertedCreate /\ Collides /\ Resolve(last.name) = last.name

----------------------------------------------------------------------------
(* C4 *)

\* C4: once a storage id has a mapping entry, no later createCollection or implicit
\* creation by addDocuments changes that entry, whether the collection existed
\* already or is newly created.
C4_EntryNeverClobbered ==
    last.op \in {"create", "add"}
        => \A i \in 1..Len(last.pre.mapping) :
              MapGet(mapping, last.pre.mapping[i].k) = last.pre.mapping[i].v

----------------------------------------------------------------------------
(* C5 *)

\* C5: after a successful deleteCollection, by display name or storage id, the
\* collection is absent, its mapping entry is removed and resolve(displayName) is the
\* display name itself; the entry stays absent, so that the display name keeps
\* resolving to itself, until a createCollection or an implicit creation by
\* addDocuments with that display name re-establishes it.
C5_DeletedNameStaysUnresolved ==
    /\ (last.op = "delete" /\ last.flag)
          => /\ last.actual \notin DOMAIN index
             /\ ~MapHas(mapping, last.actual)
             /\ \A i \in 1..Len(last.pre.mapping) :
                    last.pre.mapping[i].k = last.actual
                        => Resolve(last.pre.mapping[i].v) = last.pre.mapping[i].v
    /\ \A d \in DisplayNames :
          (last.op # "init" /\ get_actual_name(last.pre.mapping, d) = d /\ Resolve(d) # d)
              => last.op \in {"create", "add"} /\ last.name = d

----------------------------------------------------------------------------
(* C8 *)

\* The call just completed reported success to its caller
ReportedSuccess ==
    \/ last.op \in {"create", "add"} /\ last.ok
    \/ last.op = "delete" /\ last.flag

\* C8: no operation reports success while the in-memory table and the mapping file
\* differ: a failing persistence write is surfaced to the caller.
C8_SuccessMeansPersisted == ReportedSuccess => _load_mapping(file) = mapping

----------------------------------------------------------------------------
(* C6 *)

\* Threads between the start of a table mutation and the end of its file rewrite
Rewriting == {t \in Threads : pc[t] \in {"mutated", "opened", "dumped"}}

\* C6: table update and whole-file rewrite run under one lock: at most one thread is
\* between the start of a table mutation and the end of its file rewrite, and once
\* both calls have returned the file holds the in-memory table.
C6_RewriteUnderLock ==
    /\ Cardinality(Rewriting) <= 1
    /\ (\A t \in Threads : pc[t] = "done") => _load_mapping(file) = mapping

----------------------------------------------------------------------------
(* C7 *)

\* The call just completed was a mutation of the store
StoreCall == last.op \in {"add_mapping", "remove_mapping"}

\* C7: with file I/O succeeding, after every add_mapping or remove_mapping that
\* changes the table the file holds the whole table, and a store constructed from the
\* file loads exactly that table; add_mapping with equal names and remove_mapping of
\* an absent id change neither table nor file.
C7_FileIsWholeTable ==
    /\ (StoreCall /\ mapping # last.pre.mapping)
          => file = [exists |-> TRUE, data |-> Serialize(mapping)]
    /\ _load_mapping(file) = mapping
    /\ (last.op = "add_mapping" /\ last.actual = last.name)
          => mapping = last.pre.mapping /\ file = last.pre.file
    /\ (last.op = "remove_mapping" /\ ~MapHas(last.pre.mapping, last.actual))
          => mapping = last.pre.mapping /\ file = last.pre.file

\* A second entry has been added to a table that was on file
C7_Witness ==
    /\ last.op = "add_mapping"
    /\ Len(last.pre.mapping) = 1 /\ Len(mapping) = 2
    /\ last.pre.file.exists
    /\ _load_mapping(file) = mapping

----------------------------------------------------------------------------
(* C11 *)

\* The state is as it was before the last call
Unchanged ==
    index = last.pre.index /\ mapping = last.pre.mapping /\ file = last.pre.file

\* The storage id the name of the last call resolved to, before the call
ResolvedBefore == get_actual_name(last.pre.mapping, last.name)

\* C11: query on a name whose resolved storage id has no collection fails with the
\* collection-not-found error (ValueError, raised at vectorstore.py line 370) and
\* changes nothing; query on an existing collection changes nothing either.
C11_QueryChangesNothing ==
    last.op = "query"
        => /\ Unchanged
           /\ ResolvedBefore \notin DOMAIN last.pre.index
                 => ~last.ok /\ last.err = "ValueError"
           /\ (ResolvedBefore \in DOMAIN last.pre.index /\ last.flt = "none")
                 => last.ok /\ last.actual = ResolvedBefore

\* A query has failed on a display name whose mapping entry outlived its collection
C11_Witness ==
    /\ last.op = "query" /\ ~last.ok /\ last.flt = "none"
    /\ ResolvedBefore # last.name
    /\ ResolvedBefore \notin DOMAIN index

----------------------------------------------------------------------------
(* C12 *)

\* The kind of error query raises for a collection the index does not hold
CollectionNotFoundKind ==
    query([index |-> <<>>, mapping |-> <<>>, file |-> NoFile], NameOther,
          DefaultTopK, "none").err

\* C12: the error add_documents raises for lists of unequal length is of another
\* kind than the error query raises for a missing collection.
C12_ErrorKindsDistinct ==
    (last.op = "add" /\ ~last.ok /\ last.flt = "none" /\ Mismatched(last.batch))
        => last.err # CollectionNotFoundKind

----------------------------------------------------------------------------
(* C13 *)

\* The index call of the last delete_collection / delete_documents failed
IndexCallFailed == ResolvedBefore \notin DOMAIN last.pre.index \/ last.flt # "none"

\* C13: delete_collection and delete_documents never raise; they return False when
\* the index call fails, and a delete_collection that returned False left the
\* mapping table and the set of collections of the index as they were.
C13_DeletesReturnFalse ==
    last.op \in {"delete", "delete_documents"}
        => /\ last.ok
           /\ IndexCallFailed => ~last.flag
           /\ (last.op = "delete" /\ ~last.flag)
                  => mapping = last.pre.mapping /\ DOMAIN index = DOMAIN last.pre.index

C13_Witness ==
    /\ last.op = "delete" /\ last.ok /\ ~last.flag
    /\ ResolvedBefore \notin DOMAIN last.pre.index
    /\ mapping # <<>> /\ DOMAIN index # {}

----------------------------------------------------------------------------
(* C14 *)

\* The storage-identifier grammar: 3-63 characters of [A-Za-z0-9_-], alnum at
\* both ends, no "..", not of the shape of an IPv4 address
Grammatical(id) == ChromaAccepts(id) /\ ~HasDotDot(id)

\* C14: the name sanitize_collection_name returns passes validate_collection_name
\* and the grammar, sanitizing it again returns it unchanged with converted =
\* False, and a name of the shape of an IPv4 address comes out with the kb_
\* prefix and no longer of that shape.
C14_SanitizedIsValidAndFixed ==
    (last.op = "sanitize" /\ last.ok)
        => /\ validate_collection_name(last.actual)
           /\ Grammatical(last.actual)
           /\ sanitize_collection_name(last.actual)
                  = [ok |-> TRUE, name |-> last.actual, converted |-> FALSE]
           /\ IsIPv4(Strip(last.name))
                  => Prefix(last.actual, Len(KbPrefix)) = KbPrefix /\ ~IsIPv4(last.actual)

C14_Witness ==
    /\ last.op = "sanitize" /\ last.ok /\ last.converted
    /\ IsIPv4(Strip(last.name)) /\ Strip(last.name) # last.name

----------------------------------------------------------------------------
(* C16 *)

\* C16: sanitize_collection_name raises, and returns no name, for every name that
\* is empty once stripped: the empty string and every whitespace-only string.
C16_BlankNameRejected ==
    (last.op = "sanitize" /\ Strip(last.name) = <<>>)
        => ~last.ok /\ last.err = "ValueError" /\ last.actual = <<>>

----------------------------------------------------------------------------
(* C15 *)

\* C15: create_collection on a non-empty display name, leading or trailing
\* whitespace included, returns a storage id that satisfies the grammar and names
\* a collection of the index, with converted true exactly when the storage id
\* differs from the display name; and every collection of the index has a
\* storage id that satisfies the grammar.
C15_StorageIdGrammatical ==
    /\ \A c \in DOMAIN index : Grammatical(c)
    /\ (last.op = "create" /\ last.name # <<>> /\ last.flt = "none")
           => /\ last.ok
              /\ last.actual \in DOMAIN index
              /\ Grammatical(last.actual)
              /\ last.converted <=> last.actual # last.name

----------------------------------------------------------------------------
(* C17 *)

\* The file the last restart found cannot be loaded as a JSON object
Unloadable ==
    /\ last.pre.file.exists
    /\ last.flt = "open" \/ ~IsJsonObject(last.pre.file.data)

\* C17: a NameMapping constructed over a file that is unreadable, is not valid
\* JSON or is not a JSON object has an empty table, and the collection listing
\* still has one row for every collection of the index, with the storage id as
\* display name.
C17_UnloadableFileGivesEmptyTable ==
    (last.op = "restart" /\ Unloadable)
        => /\ mapping = <<>>
           /\ get_collection_display_info(World)
                  = {[actual_name |-> n, original_name |-> None, display_name |-> n] :
                         n \in DOMAIN index}

C17_Witness ==
    /\ last.op = "restart" /\ Unloadable /\ last.flt = "none"
    /\ \E i \in 1..Len(last.pre.file.data) : last.pre.file.data[i].t = "entry"
    /\ last.pre.mapping # <<>>
    /\ DOMAIN index # {}

----------------------------------------------------------------------------
(* C18 *)

\* The last call was add_documents, the index working, on a name that resolved to
\* no collection, and c is what create_collection gives that name: a storage id
\* that had no collection either
CreatesImplicitly(c) ==
    /\ last.op = "add" /\ last.flt = "none"
    /\ ResolvedBefore \notin DOMAIN last.pre.index
    /\ c.ok /\ c.actual \notin DOMAIN last.pre.index

\* The last add_documents left the state create_collection's outcome c describes
\* and stored the ids it returned in the collection c names
StoredUnder(c) ==
    /\ c.actual \in DOMAIN index
    /\ mapping = c.mapping /\ file = c.file
    /\ c.converted => get_original_name(mapping, c.actual) = last.name
    /\ Resolve(last.name) = c.actual
    /\ last.ok => /\ last.actual = c.actual
                  /\ SeqToSet(last.ids) \subseteq SeqToSet(IdsOf(index[c.actual]))
    /\ \A n \in DOMAIN last.pre.index : n \in DOMAIN index

ImplicitCreationAs(c) == CreatesImplicitly(c) => StoredUnder(c)

\* C18: add_documents on a name for which no collection exists creates the
\* collection under the storage id create_collection gives that name, records
\* the mapping when the name was converted and stores the batch there: afterwards
\* the name resolves to that storage id and the returned ids are in that
\* collection, also when the mapping held an entry for a missing collection.
C18_ImplicitCreation ==
    ImplicitCreationAs(create_collection(last.pre, last.name, last.name, FALSE, last.io))

C18_Witness ==
    /\ last.op = "add" /\ last.flt = "none" /\ last.ok /\ last.ids # <<>>
    /\ ResolvedBefore # last.name
    /\ ResolvedBefore \notin DOMAIN last.pre.index
    /\ Resolve(last.name) \in DOMAIN index
    /\ SeqToSet(last.ids) \subseteq SeqToSet(IdsOf(index[Resolve(last.name)]))

----------------------------------------------------------------------------
(* C19 *)

NamedCalls == {"add", "query", "delete_documents", "delete", "get_dimension"}

\* The outcome of the last call's operation, on the state before it, with the
\* same arguments but name for the collection
CallWith(name) ==
    CASE last.op = "add" ->
            add_documents(last.pre, name, last.batch.texts, last.batch.metadatas,
                          last.batch.embeddings, last.batch.ids, last.flt, "raise",
                          last.io)
      [] last.op = "query" -> query(last.pre, name, DefaultTopK, last.flt)
      [] last.op = "delete_documents" ->
            delete_documents(last.pre, name, last.batch.ids.list, last.flt)
      [] last.op = "delete" ->
            delete_collection(last.pre, name, last.flt = "resolve", last.io)
      [] OTHER -> get_collection_dimension(last.pre, name, last.flt)

\* The last call had the outcome r: the same result and the same resulting state
SameOutcome(r) ==
    /\ index = r.index /\ mapping = r.mapping /\ file = r.file
    /\ last.ok = r.ok /\ last.err = r.err /\ last.flag = r.flag
    /\ last.actual = r.actual /\ last.ids = r.ids

\* Collections of the index, before the last call, whose mapping entry carries
\* the name of the call as display name
MappedAs(name) ==
    {last.pre.mapping[i].k : i \in {j \in 1..Len(last.pre.mapping) :
                                      /\ last.pre.mapping[j].v = name
                                      /\ last.pre.mapping[j].k \in DOMAIN last.pre.index}}

\* C19: add_documents, query, delete_documents, delete_collection and
\* get_collection_dimension called with the display name of a collection that
\* has a mapping entry act on that collection, with the result and the resulting
\* state of the same call made with the storage id.
C19_DisplayNameActsAsStorageId ==
    last.op \in NamedCalls
        => \A k \in MappedAs(last.name) : last.actual \in {k, <<>>} /\ SameOutcome(CallWith(k))

C19_Witness ==
    /\ last.op = "delete_documents" /\ last.flag
    /\ MappedAs(last.name) # {} /\ last.name \notin DOMAIN last.pre.index
    /\ index # last.pre.index

----------------------------------------------------------------------------
(* C20 *)

\* The part of a chunk before its first newline
FirstLine(chunk) == Head(SplitOn(chunk, "NL"))

\* piece is what text holds at position p (0-based)
OccursAt(piece, text, p) == Slice(text, p, p + Len(piece)) = piece /\ p + Len(piece) <= Len(text)

RECURSIVE InOrderFrom(_, _, _)
\* The chunks begin, one after the other, at positions of text that never go
\* back: each chunk is placed at the first position from the last one on where
\* text holds its first line
InOrderFrom(chunks, text, from) ==
    IF chunks = <<>> THEN TRUE
    ELSE /\ \E p \in from..Len(text) : OccursAt(FirstLine(Head(chunks)), text, p)
         /\ InOrderFrom(Tail(chunks), text,
                        SetMin({p \in from..Len(text) :
                                    OccursAt(FirstLine(Head(chunks)), text, p)}))

\* C20: for every strategy and configuration, max_chunk_size below chunk_size
\* included, split_text returns the chunks in the order of the document, also
\* through the merge pass and the renewed cut of a chunk above max_chunk_size,
\* and no chunk is empty or made of whitespace only.
C20_ChunksInOrderAndNotBlank ==
    last.op = "split"
        => /\ \A i \in 1..Len(last.ids) : Strip(last.ids[i]) # <<>>
           /\ InOrderFrom(last.ids, last.name, 0)

----------------------------------------------------------------------------
(* C21 *)

\* A configuration the constructor has to refuse
InvalidConfig(a) ==
    \/ a.strategy \notin Strategies
    \/ a.chunk_size <= 0
    \/ a.chunk_overlap < 0
    \/ a.chunk_overlap >= a.chunk_size

\* C21: constructing a TextSplitter with a chunk_size that is not above 0, or
\* with a chunk_overlap outside 0 <= chunk_overlap < chunk_size, raises, as it
\* does for an unknown strategy.
C21_InvalidConfigRejected ==
    (last.op = "construct" /\ InvalidConfig(last.batch)) => ~last.ok

----------------------------------------------------------------------------
(* C22 *)

\* The last call split a non-blank text with the fixed strategy
FixedSplit ==
    last.op = "split" /\ last.batch.strategy = "fixed" /\ Strip(last.name) # <<>>

\* C22: with the fixed strategy, a non-blank text of at most chunk_size
\* characters comes back as exactly one chunk, the stripped text, whatever
\* min_chunk_size and max_chunk_size are.
C22_ShortTextIsOneChunk ==
    (FixedSplit /\ Len(Strip(last.name)) <= last.batch.chunk_size)
        => last.ids = <<Strip(last.name)>>

C22_Witness ==
    /\ FixedSplit /\ Len(last.name) <= last.batch.chunk_size
    /\ Strip(last.name) # last.name
    /\ Len(Strip(last.name)) > last.batch.max_chunk_size
    /\ last.ids = <<Strip(last.name)>>

----------------------------------------------------------------------------
(* C23 *)

\* The documents the last add_documents call stored
StoredByLast ==
    {i \in 1..Len(DocsIn(index, last.actual)) :
         /\ index[last.actual][i].id \in SeqToSet(last.ids)
         /\ index[last.actual][i].id \notin SeqToSet(IdsOf(DocsIn(last.pre.index, last.actual)))}

\* What get_collection_dimension has to return for the documents docs: the
\* length of a stored vector, else the recorded field, None (<<>>) for no document
DimensionToReport(docs) ==
    IF docs = <<>> THEN <<>>
    ELSE IF \E i \in 1..Len(docs) : docs[i].embedding # <<>>
    THEN <<Len(docs[CHOOSE i \in 1..Len(docs) : docs[i].embedding # <<>>].embedding[1])>>
    ELSE docs[1].metadata.embedding_dimension

\* C23: every document an add_documents call with embeddings stores has the
\* metadata field embedding_dimension equal to the length of the first vector
\* of the call's batch, and get_collection_dimension returns the length of a
\* stored vector, else the recorded field, and None when the collection is
\* empty or absent.
C23_DimensionRecordedAndReported ==
    /\ (last.op = "add" /\ last.ok /\ Truthy(last.batch.embeddings))
           => \A i \in StoredByLast :
                  index[last.actual][i].metadata.embedding_dimension
                      = <<Len(last.batch.embeddings.list[1])>>
    /\ (last.op = "get_dimension" /\ last.flt = "none")
           => last.ids = DimensionToReport(DocsIn(last.pre.index, ResolvedBefore))

----------------------------------------------------------------------------
(* Two threads calling create_collection and add_documents: every call of the *)
(* Chroma client is one step, and the name table is updated within the step   *)

RaceNames == {NameSpace, NameId}

RaceTexts == {<<<<"a">>>>, <<<<"a", "b">>>>, <<<<"a">>, <<"a", "b">>>>}

\* Batches as upload_file hands them over: one metadata and one vector per chunk
RaceBatches ==
    {[texts |-> t, metadatas |-> [i \in 1..Len(t) |-> Meta(0)],
      embeddings |-> Given([i \in 1..Len(t) |-> Vector]), ids |-> Absent] :
        t \in RaceTexts}

\* Locals of a running call: the name in use, the batch, the number of
\* collection.add calls made, and how the call ended
Frame(op, name, a, batch) ==
    [op |-> op, name |-> name, actual |-> a.name, converted |-> a.converted,
     batch |-> batch, ids |-> <<>>, attempts |-> 0, res |-> "running"]

\* The frame fr of thread t goes on at position p
Goto(t, p, fr) ==
    /\ pc' = [pc EXCEPT ![t] = p]
    /\ loc' = [loc EXCEPT ![t] = fr]

\* Where the call goes once it holds its collection
Holding(fr) == IF fr.op = "add" THEN "snapshot" ELSE "done"

Succeeded(fr) == IF fr.op = "add" THEN fr ELSE [fr EXCEPT !.res = "returned"]

\* create_collection lines 82-98: client.get_collection, then the mapping step
RaceGetCollection(t, fr) ==
    IF ClientGetOk(index, fr.actual, FALSE)
    THEN LET r == MapExisting(World, fr.actual, fr.name, IoOk)
         IN  /\ mapping' = r.mapping
             /\ file' = r.file
             /\ Goto(t, Holding(fr), Succeeded(fr))
             /\ UNCHANGED <<index, last>>
    ELSE /\ Goto(t, "create", fr)
         /\ UNCHANGED <<index, mapping, file, last>>

\* create_knowledge_base: create_collection(name, original_name=name) begins
RaceCreateBegin(t) ==
    /\ pc[t] = "idle"
    /\ \E name \in RaceNames :
          RaceGetCollection(t, Frame("create", name, ActualName(name, name), NoBatch))

\* add_documents lines 201-225: resolve the name, client.get_collection
RaceAddBegin(t) ==
    /\ pc[t] = "idle"
    /\ \E name \in RaceNames, b \in RaceBatches :
          LET mapped == get_actual_name(mapping, name)
          IN  /\ IF ClientGetOk(index, mapped, FALSE)
                 THEN Goto(t, "snapshot",
                           Frame("add", name, [name |-> mapped, converted |-> FALSE], b))
                 ELSE Goto(t, "get", Frame("add", name, ActualName(name, name), b))
              /\ UNCHANGED <<index, mapping, file, last>>

\* add_documents lines 214 and 225: create_collection begins inside add_documents
RaceGet(t) ==
    /\ pc[t] = "get"
    /\ RaceGetCollection(t, loc[t])

\* create_collection lines 99-109: client.create_collection raises when the
\* collection exists by now; otherwise the mapping step follows
RaceCreate(t) ==
    /\ pc[t] = "create"
    /\ IF ClientCreateOk(index, loc[t].actual, FALSE)
       THEN LET r == MapCreated(World, loc[t].actual, loc[t].name, IoOk)
            IN  /\ index' = ClientCreate(index, loc[t].actual)
                /\ mapping' = r.mapping
                /\ file' = r.file
                /\ Goto(t, Holding(loc[t]), Succeeded(loc[t]))
       ELSE /\ Goto(t, "done", [loc[t] EXCEPT !.res = "raised"])
            /\ UNCHANGED <<index, mapping, file>>
    /\ UNCHANGED last

\* add_documents lines 236-308: collection.get, filter the batch against it
RaceSnapshot(t) ==
    /\ pc[t] = "snapshot"
    /\ LET fr == loc[t]
           b == Truncated(WithDimension(
                    Generated(fr.batch.texts, fr.batch.metadatas, fr.batch.embeddings,
                              fr.batch.ids, ExistingIds(index[fr.actual], FALSE))))
       IN  IF ~Consistent(b) THEN Goto(t, "done", [fr EXCEPT !.res = "raised"])
           ELSE IF b.texts = <<>> THEN Goto(t, "done", [fr EXCEPT !.res = "returned"])
           ELSE Goto(t, "write", [fr EXCEPT !.batch = b])
    /\ UNCHANGED <<index, mapping, file, last>>

\* add_documents lines 311-340: collection.add, whose failure is raised again
RaceWrite(t) ==
    /\ pc[t] = "write"
    /\ \E onDup \in {"raise", "skip"} :
          LET fr == [loc[t] EXCEPT !.attempts = @ + 1]
          IN  IF CollectionAddOk(index[fr.actual], fr.batch, FALSE, onDup)
              THEN /\ index' = [index EXCEPT ![fr.actual] = CollectionAdd(@, fr.batch)]
                   /\ Goto(t, "done", [fr EXCEPT !.res = "returned", !.ids = fr.batch.ids])
              ELSE /\ Goto(t, "done", [fr EXCEPT !.res = "raised"])
                   /\ UNCHANGED index
    /\ UNCHANGED <<mapping, file, last>>

NextRace ==
    \/ \E t \in Threads :
          \/ RaceCreateBegin(t) \/ RaceAddBegin(t)
          \/ RaceGet(t) \/ RaceCreate(t)
          \/ RaceSnapshot(t) \/ RaceWrite(t)
    \/ ConcReturn

SpecRace == Init /\ [][NextRace]_vars

----------------------------------------------------------------------------
(* C24 *)

\* A document the write attempts of both calls carried
RacedIds ==
    IF \A t \in Threads : loc[t].attempts = 1
    THEN SeqToSet(loc[1].batch.ids) \cap SeqToSet(loc[2].batch.ids)
    ELSE {}

BothAdds ==
    /\ \A t \in Threads : pc[t] = "done" /\ loc[t].op = "add"
    /\ loc[1].actual = loc[2].actual

----------------------------------------------------------------------------
(* _split_fixed, one iteration of its while loop per step *)

LoopSplitters ==
    {TextSplitter("fixed", c, o, m, x) :
        c \in {1, 2, 3}, o \in {0, 1, 3}, m \in {1, 2}, x \in {<<>>, <<1>>}}

\* The texts _split_fixed is called with: split_text strips the text first and
\* returns before the split when nothing is left
LoopTexts == {Strip(text) : text \in SplitTexts} \ {<<>>}

\* Locals of _split_fixed; prev is the start of the iteration before, -1 for none,
\* and windows lists the text[start:split_pos] taken so far as <<start, split_pos>>
LoopFrame(text, cfg, start, prev, chunks, windows, iterations) ==
    [op |-> "split_fixed", text |-> text, cfg |-> cfg, start |-> start, prev |-> prev,
     chunks |-> chunks, windows |-> windows, iterations |-> iterations]

\* _split_fixed lines 88-92: a short text is returned whole, a longer one is walked
LoopBegin ==
    /\ pc[1] = "idle"
    /\ \E text \in LoopTexts, cfg \in LoopSplitters :
          IF Len(text) <= cfg.chunk_size
          THEN Goto(1, "done", LoopFrame(text, cfg, 0, -1, <<text>>, <<<<0, Len(text)>>>>, 0))
          ELSE Goto(1, "loop", LoopFrame(text, cfg, 0, -1, <<>>, <<>>, 0))
    /\ UNCHANGED <<index, mapping, file, last>>

\* _split_fixed lines 94-113: the loop test and one pass through the body
LoopStep ==
    /\ pc[1] = "loop"
    /\ LET fr == loc[1]
           end == fr.start + fr.cfg.chunk_size
           split_pos == SplitPos(fr.text, fr.start, end)
           chunk == Strip(Slice(fr.text, fr.start, split_pos))
       IN  IF fr.start >= Len(fr.text) THEN Goto(1, "done", fr)
           ELSE IF end >= Len(fr.text)
           THEN Goto(1, "done",
                     [fr EXCEPT !.chunks = Append(@, Strip(Slice(fr.text, fr.start, Len(fr.text)))),
                                !.windows = Append(@, <<fr.start, Len(fr.text)>>),
                                !.iterations = @ + 1])
           ELSE Goto(1, "loop",
                     [fr EXCEPT !.chunks = IF chunk # <<>> THEN Append(@, chunk) ELSE @,
                                !.windows = Append(@, <<fr.start, split_pos>>),
                                !.prev = fr.start,
                                !.start = NextStart(fr.start, split_pos, fr.cfg),
                                !.iterations = @ + 1])
    /\ UNCHANGED <<index, mapping, file, last>>

\* _split_fixed line 115: return chunks
LoopReturn ==
    /\ pc[1] = "done"
    /\ Goto(1, "idle", Idle)
    /\ UNCHANGED <<index, mapping, file, last>>

NextLoop == LoopBegin \/ LoopStep \/ LoopReturn

SpecLoop == Init /\ [][NextLoop]_vars

----------------------------------------------------------------------------
(* C25 *)

InLoop == pc[1] \in {"loop", "done"} /\ loc[1].op = "split_fixed"

\* C25: for every text and every chunk_size >= 1, overlaps of chunk_size and more
\* included, each pass through the loop of _split_fixed starts strictly after the
\* pass before, and the loop is left after at most len(text) passes with the
\* chunks _split_fixed returns; a pass is always possible, so nothing is raised.
C25_FixedLoopTerminates ==
    InLoop =>
        /\ loc[1].start > loc[1].prev
        /\ loc[1].iterations <= Len(loc[1].text)
        /\ pc[1] = "done" => loc[1].chunks = _split_fixed(loc[1].text, loc[1].cfg)

\* The loop was left after several passes although the overlap is not smaller
\* than the chunk size
C25_Witness ==
    /\ InLoop /\ pc[1] = "done"
    /\ loc[1].cfg.chunk_overlap >= loc[1].cfg.chunk_size
    /\ loc[1].iterations >= 3

----------------------------------------------------------------------------
(* C26 *)

\* chunk_overlap is within the range the upload endpoint accepts
OverlapInRange(cfg) == 0 <= cfg.chunk_overlap /\ cfg.chunk_overlap < cfg.chunk_size

\* piece is a substring of chunk
Within(piece, chunk) == \E p \in 0..Len(chunk) : OccursAt(piece, chunk, p)

\* The character at position p (0-based) of the text is in a returned chunk: a
\* window over p has its stripped content inside one of the chunks
Kept(p, fr, returned) ==
    \E w \in 1..Len(fr.windows) :
        /\ fr.windows[w][1] <= p /\ p < fr.windows[w][2]
        /\ \E k \in 1..Len(returned) :
              Within(Strip(Slice(fr.text, fr.windows[w][1], fr.windows[w][2])), returned[k])

\* C26: fixed strategy, 0 <= chunk_overlap < chunk_size: every window after the
\* first starts between the boundary of the window before minus chunk_overlap and
\* that boundary, and once the loop is left every character of the stripped text
\* that is not whitespace lies in a chunk the merge pass returns.
C26_WindowsLeaveNoGap ==
    (InLoop /\ OverlapInRange(loc[1].cfg)) =>
        /\ \A w \in 2..Len(loc[1].windows) :
              /\ loc[1].windows[w][1] >= loc[1].windows[w - 1][2] - loc[1].cfg.chunk_overlap
              /\ loc[1].windows[w][1] <= loc[1].windows[w - 1][2]
        /\ pc[1] = "done" =>
              \A p \in 0..(Len(loc[1].text) - 1) :
                  loc[1].text[p + 1] \notin Whitespace
                      => Kept(p, loc[1], _filter_and_merge_chunks(loc[1].chunks, loc[1].cfg))

\* A text cut at a delimiter into three windows, the last two overlapping
C26_Witness ==
    /\ InLoop /\ pc[1] = "done" /\ OverlapInRange(loc[1].cfg)
    /\ Len(loc[1].windows) >= 3
    /\ \E w \in 2..Len(loc[1].windows) : loc[1].windows[w][1] < loc[1].windows[w - 1][2]
    /\ \E w \in 1..Len(loc[1].windows) :
          loc[1].windows[w][2] < loc[1].windows[w][1] + loc[1].cfg.chunk_size
              /\ loc[1].windows[w][2] < Len(loc[1].text)

----------------------------------------------------------------------------
(* C27 *)

\* C27: for every strategy, text and configuration with chunk_size >= 1, no
\* chunk split_text returns is longer than max(chunk_size, max_chunk_size), and a
\* chunk longer than max_chunk_size is a piece of the text, never one the merge
\* pass joined.
C27_ChunksAreBounded ==
    (last.op = "split" /\ last.batch.chunk_size >= 1)
        => \A i \in 1..Len(last.ids) :
              /\ Len(last.ids[i])
                     <= SetMax({last.batch.chunk_size, last.batch.max_chunk_size})
              /\ Len(last.ids[i]) > last.batch.max_chunk_size
                     => Within(last.ids[i], last.name)

\* Two short chunks were joined into one that is longer than chunk_size
C27_Witness ==
    /\ last.op = "split" /\ last.batch.chunk_size >= 1
    /\ \E i \in 1..Len(last.ids) :
          /\ Len(last.ids[i]) > last.batch.chunk_size
          /\ ~Within(last.ids[i], last.name)

----------------------------------------------------------------------------
(* C28 *)

\* The last completed call is one of the four that write
WritingCall == last.op \in {"create", "add", "delete", "delete_documents"}

----------------------------------------------------------------------------
(* C29 *)

\* Both threads have finished create_collection for the same display name
BothCreates ==
    /\ \A t \in Threads : pc[t] = "done" /\ loc[t].op = "create"
    /\ loc[1].name = loc[2].name

\* C29: two concurrent create_collection calls for one display name both return,
\* with the same storage id, in every interleaving of their get_collection and
\* create_collection steps; the index holds the collection, and the name table
\* holds its entry when the name was converted.
C29_RacingCreatesBothSucceed ==
    BothCreates =>
        /\ \A t \in Threads : loc[t].res = "returned"
        /\ loc[1].actual = loc[2].actual
        /\ loc[1].actual \in DOMAIN index
        /\ loc[1].converted => get_original_name(mapping, loc[1].actual) = loc[1].name

----------------------------------------------------------------------------
(* Chunks of two uploads whose texts and filenames run into each other *)

\* The metadata of a chunk that carries no filename
MetaUnnamed == [Meta(0) EXCEPT !.filename = <<>>]

IdTexts == {<<"a">>, <<"a", "f">>}

\* One or two chunks, each with its metadata and its vector
IdBatches ==
    {[texts |-> t, metadatas |-> m,
      embeddings |-> Given([i \in 1..Len(t) |-> Vector]), ids |-> Absent] :
        t \in SeqsUpTo(IdTexts, 2) \ {<<>>},
        m \in SeqsUpTo({Meta(0), MetaUnnamed}, 2) \ {<<>>}}

NextIds ==
    \/ AddDocuments(BatchNames, {b \in IdBatches : Len(b.texts) = Len(b.metadatas)},
                    {Env("none", "raise"), Env("none", "skip")}, {IoOk})
    \/ DropCollection(BatchNames)
    \/ Observe

SpecIds == Init /\ [][NextIds]_vars

----------------------------------------------------------------------------
(* C30 *)

\* The five fields that define a document
DefiningTuple(text, metadata) ==
    <<text, metadata.filename, metadata.chunk_index, metadata.total_chunks,
      metadata.split_strategy>>

\* The defining tuples of the documents of a collection
TuplesIn(docs) == {DefiningTuple(docs[i].text, docs[i].metadata) : i \in 1..Len(docs)}

\* C30: two triples that differ in text, filename, chunk_index, total_chunks or
\* split_strategy never get the same id, so after an add_documents call that
\* returned, every triple of the batch is in the collection with its own
\* defining tuple: none was dropped as the duplicate of a different document.
C30_IdSeparatesDocuments ==
    (GeneratedAdd /\ last.ok /\ last.flt = "none") =>
        /\ \A i, j \in 1..TripleCount(last.batch) :
              DefiningTuple(last.batch.texts[i], last.batch.metadatas[i])
                      # DefiningTuple(last.batch.texts[j], last.batch.metadatas[j])
                  => DocId(last.batch.texts[i], last.batch.metadatas[i])
                         # DocId(last.batch.texts[j], last.batch.metadatas[j])
        /\ \A i \in 1..TripleCount(last.batch) :
              DefiningTuple(last.batch.texts[i], last.batch.metadatas[i])
                  \in TuplesIn(DocsIn(index, last.actual))

====
